---- MODULE Spec2Model ----
(***************************************************************************)
(* Model of the wallabag local cache and its synchronisation engine:       *)
(*   wallabag-backend/src/lib.rs  Backend::sync, Backend::full_sync,       *)
(*                                pull_entry, sync_local_deletes,          *)
(*                                sync_annotation                          *)
(*   wallabag-backend/src/db.rs   the local store (DB)                     *)
(*   wallabag-cli/src/backend.rs  the command line tool's own Backend::sync*)
(*   wallabag-api/src/client.rs   the remote calls the backends make       *)
(*                                                                         *)
(* A run of sync / full_sync is a sequence of steps; every step is one     *)
(* loop iteration (or one straight-line block) of the source, and draws    *)
(* the outcome of its fallible calls: a remote call or a store call may    *)
(* return an error, and `?` then returns from the run at that point.       *)
(***************************************************************************)
EXTENDS Integers, Sequences, FiniteSets, TLC

VARIABLES
    db,      \* the local store: one field per table of db.rs
    remote,  \* the server's entries and annotations, as the client sees them
    run,     \* position and locals of the sync call in progress
    log,     \* remote calls made by the current (or last) run, in order
    hist,    \* what an observer recorded about the current and previous run
    now,     \* the time, in ticks, as the server's clock shows it
    clock,   \* the last reading of the local system clock (Utc::now())
    impl     \* which Backend runs: "backend" (wallabag-backend) or "cli"

vars == <<db, remote, run, log, hist, now, clock, impl>>

---------------------------------------------------------------------------
(* Bounds and domains *)

\* Ticks per second: local instants (Utc::now) are finer than the whole
\* seconds the server reports and the `since` filter carries.
Res == 2

\* The clock advances at most this many ticks.
MaxTicks == 1

\* At most this many calls of sync / full_sync are made.
MaxRuns == 2

\* Ids the server hands out never exceed this (create calls fail beyond it).
MaxId == 4

\* How far the local system clock may be set back between two readings.
StepBack == 1

\* The clock value of the initial states: a whole second, later than every
\* updated_at and last_sync the initial stores hold (the latest is 2 * Res).
StartTime == 3 * Res

MaxTime == StartTime + MaxTicks

\* Ids of the rows that exist initially.
EntryIds == {1, 2}
AnnIds == {1, 2}

\* The entry an initially existing annotation belongs to.
AnnEntry(a) == a


---------------------------------------------------------------------------
(* Helpers *)

RECURSIVE SetToSeq(_)
\* A table scan: rows in ascending primary key order.
SetToSeq(S) ==
    IF S = {} THEN <<>>
    ELSE LET m == CHOOSE x \in S : \A y \in S : x <= y
         IN <<m>> \o SetToSeq(S \ {m})

Range(s) == {s[i] : i \in 1..Len(s)}

SelectIds(f, P(_)) == {i \in DOMAIN f : P(f[i])}

Remove(f, id) == [i \in (DOMAIN f) \ {id} |-> f[i]]

Put(f, id, v) == [i \in (DOMAIN f) \cup {id} |-> IF i = id THEN v ELSE f[i]]

\* DateTime::timestamp(): the instant truncated to whole seconds.
timestamp_RoundsUp(t) == (t + Res - 1) \div Res

timestamp(t) == t \div Res

\* The instants the local clock may show when the run reads it (Utc::now()
\* in touch_last_sync).  Utc::now() is the system's wall clock: time has
\* passed since the last reading, but the clock may have been set back.
ClockReadings == (IF clock > StepBack THEN clock - StepBack ELSE 0)..MaxTime

\* The server's clock at instant t: whole seconds, expressed in ticks.  The
\* server stamps what it writes with ServerNow(now).
ServerNow(t) == (t \div Res) * Res

---------------------------------------------------------------------------
(* The local store, db.rs.  Each operator is the effect of the successful   *)
(* call; the caller draws whether the call fails instead.                   *)

get_entry(d, id) == IF id \in DOMAIN d.entries THEN <<d.entries[id]>> ELSE <<>>

get_annotation(d, id) ==
    IF id \in DOMAIN d.annotations THEN <<d.annotations[id].ann>> ELSE <<>>

\* save_entry as INSERT OR IGNORE: a row that exists is kept.
save_entry_Ignores(d, e) ==
    IF e.id \in DOMAIN d.entries THEN d
    ELSE [d EXCEPT !.entries = Put(@, e.id,
                      [id |-> e.id, updated_at |-> e.updated_at,
                       content |-> e.content, tags |-> e.tags])]

\* save_entry replacing the row in a way that drops the annotations stored
\* for the entry.
save_entry_DropsAnnotations(d, e) ==
    [d EXCEPT !.entries = Put(@, e.id,
                  [id |-> e.id, updated_at |-> e.updated_at,
                   content |-> e.content, tags |-> e.tags]),
              !.annotations =
                  [a \in {x \in DOMAIN @ : @[x].entry_id # e.id} |-> @[a]]]

\* INSERT OR REPLACE INTO entries: the row keeps everything but the
\* annotations, which live in their own table.
save_entry(d, e) ==
    [d EXCEPT !.entries = Put(@, e.id,
        [id |-> e.id, updated_at |-> e.updated_at,
         content |-> e.content, tags |-> e.tags])]

save_annotation(d, a, entry_id) ==
    [d EXCEPT !.annotations = Put(@, a.id, [ann |-> a, entry_id |-> entry_id])]

\* delete_entry leaving the row in place.
delete_entry_Keeps(d, id) == d

delete_entry(d, id) == [d EXCEPT !.entries = Remove(@, id)]

delete_annotation(d, id) == [d EXCEPT !.annotations = Remove(@, id)]

get_all_entry_ids(d) == DOMAIN d.entries

get_all_annotation_ids(d) == DOMAIN d.annotations

\* get_entries_since leaving out the entries updated exactly at `since`.
get_entries_since_Strict(d, since) ==
    LET ids == SelectIds(d.entries, LAMBDA e : e.updated_at > since)
        s == SetToSeq(ids)
    IN [i \in 1..Len(s) |-> d.entries[s[i]]]

\* SELECT ... FROM entries WHERE updated_at >= ?
get_entries_since(d, since) ==
    LET ids == SelectIds(d.entries, LAMBDA e : e.updated_at >= since)
        s == SetToSeq(ids)
    IN [i \in 1..Len(s) |-> d.entries[s[i]]]

get_annotations_since(d, since) ==
    LET ids == SelectIds(d.annotations, LAMBDA r : r.ann.updated_at >= since)
        s == SetToSeq(ids)
    IN [i \in 1..Len(s) |-> d.annotations[s[i]].ann]

get_new_urls(d) == d.new_urls

\* remove_new_url leaving the record in the queue.
remove_new_url_Keeps(d, id) == d

remove_new_url(d, id) ==
    [d EXCEPT !.new_urls = SelectSeq(@, LAMBDA r : r.id # id)]

get_new_annotations(d) == d.new_annotations

remove_new_annotation(d, id) ==
    [d EXCEPT !.new_annotations = SelectSeq(@, LAMBDA r : r.id # id)]

get_annotation_deletes(d) == SetToSeq(d.deleted_annotations)

\* remove_delete_annotation deleting no row.
remove_delete_annotation_Keeps(d, id) == d

remove_delete_annotation(d, id) ==
    [d EXCEPT !.deleted_annotations = @ \ {id}]

get_entry_deletes(d) == SetToSeq(d.deleted_entries)

remove_delete_entry(d, id) == [d EXCEPT !.deleted_entries = @ \ {id}]

get_last_sync(d) == d.last_sync

\* touch_last_sync storing the time in whole seconds.
touch_last_sync_Seconds(d, t) == [d EXCEPT !.last_sync = timestamp(t)]

\* UPDATE config SET last_sync = Utc::now(); t is the clock reading.
touch_last_sync(d, t) == [d EXCEPT !.last_sync = t]

drop_tag_links_for_entry(d, id) ==
    [d EXCEPT !.taglinks = {l \in @ : l[1] # id}]

save_tag(d, t) == [d EXCEPT !.tags = @ \cup {t}]

save_tag_link(d, id, t) == [d EXCEPT !.taglinks = @ \cup {<<id, t>>}]

\* delete_unused_tags removing nothing.
delete_unused_tags_Keeps(d) == d

\* delete_unused_tags removing every tag.
delete_unused_tags_All(d) == [d EXCEPT !.tags = {}]

delete_unused_tags(d) ==
    [d EXCEPT !.tags = {t \in @ : \E l \in d.taglinks : l[2] = t}]

\* pull_entry's last block: drop the entry's tag links, then save every tag
\* of the entry and its link.
rebuild_tag_links(d, e) ==
    LET dropped == drop_tag_links_for_entry(d, e.id)
    IN [dropped EXCEPT !.tags = @ \cup e.tags,
                       !.taglinks = @ \cup {<<e.id, t>> : t \in e.tags}]

---------------------------------------------------------------------------
(* The server, as reached through wallabag-api's Client.  Each operator is *)
(* the successful call: the server's state after it, and its response.     *)

\* The annotations the server embeds in an entry it returns.
EmbeddedAnnotations(r, id) ==
    LET ids == {a \in DOMAIN r.annotations : r.annotations[a].entry_id = id}
        s == SetToSeq(ids)
    IN [i \in 1..Len(s) |-> r.annotations[s[i]].ann]

\* An Entry as the server returns it.
RemoteEntry(r, id) ==
    [id |-> id,
     updated_at |-> r.entries[id].updated_at,
     content |-> r.entries[id].content,
     tags |-> r.entries[id].tags,
     annotations |-> EmbeddedAnnotations(r, id)]

\* Client::get_entries: every entry of the server (all pages).
client_get_entries(r) ==
    LET s == SetToSeq(DOMAIN r.entries)
    IN [i \in 1..Len(s) |-> RemoteEntry(r, s[i])]

\* Client::get_entries_with_filter: entries updated at or after filter.since,
\* a number of whole seconds.
client_get_entries_with_filter(r, since) ==
    LET ids == SelectIds(r.entries, LAMBDA e : timestamp(e.updated_at) >= since)
        s == SetToSeq(ids)
    IN [i \in 1..Len(s) |-> RemoteEntry(r, s[i])]

\* From<&Entry> for PatchEntry: the fields a push carries.
PatchEntry(e) == [content |-> e.content, tags |-> e.tags]

CanUpdateEntry(r, id) == id \in DOMAIN r.entries

\* Client::update_entry (PATCH): the server applies the patch and stamps the
\* entry with its own clock.
client_update_entry(r, id, patch, t) ==
    [r EXCEPT !.entries[id] =
        [@ EXCEPT !.content = patch.content, !.tags = patch.tags,
                  !.updated_at = ServerNow(t)]]

CanDeleteEntry(r, id) == id \in DOMAIN r.entries

\* Client::delete_entry: the server drops the entry and its annotations.
client_delete_entry(r, id) ==
    [r EXCEPT !.entries = Remove(@, id),
              !.annotations =
                  [a \in {x \in DOMAIN @ : @[x].entry_id # id} |-> @[a]]]

CanDeleteAnnotation(r, id) == id \in DOMAIN r.annotations

\* Client::delete_annotation
client_delete_annotation(r, id) == [r EXCEPT !.annotations = Remove(@, id)]

CanUpdateAnnotation(r, id) == id \in DOMAIN r.annotations

\* Client::update_annotation (PUT): the server takes the text and stamps the
\* annotation with its own clock.
client_update_annotation(r, a, t) ==
    [r EXCEPT !.annotations[a.id].ann =
        [@ EXCEPT !.text = a.text, !.updated_at = ServerNow(t)]]

CanCreateEntry(r) == r.next_entry_id <= MaxId

\* Client::create_entry (POST): the server assigns the id and fetches the page.
client_create_entry(r, url, t) ==
    [r EXCEPT !.entries = Put(@, r.next_entry_id,
                  [updated_at |-> ServerNow(t), content |-> url, tags |-> {}]),
              !.next_entry_id = @ + 1]

CanCreateAnnotation(r, entry_id) ==
    entry_id \in DOMAIN r.entries /\ r.next_ann_id <= MaxId

\* Client::create_annotation (POST on the entry)
client_create_annotation(r, entry_id, new_ann, t) ==
    [r EXCEPT !.annotations = Put(@, r.next_ann_id,
                  [ann |-> [id |-> r.next_ann_id, updated_at |-> ServerNow(t),
                            text |-> new_ann.text],
                   entry_id |-> entry_id]),
              !.next_ann_id = @ + 1]

---------------------------------------------------------------------------
(* A run of Backend::sync / Backend::full_sync *)

\* The blocks of a run with the pending deletes pushed after the pull and
\* push blocks.
Phases_DeletesLast(i, mode) ==
    IF mode = "sync" THEN
        <<"pull", "push_entries", "push_anns", "del_anns", "del_entries",
          "new_urls", "new_anns", "finish">>
    ELSE
        <<"pull", "gc", "del_anns", "del_entries",
          "new_urls", "new_anns", "finish">>

\* The blocks of a run, in source order.
Phases(i, mode) ==
    IF i = "backend" /\ mode = "sync" THEN
        <<"del_anns", "del_entries", "pull", "push_entries", "push_anns",
          "new_urls", "new_anns", "finish">>
    ELSE IF i = "backend" THEN
        <<"del_anns", "del_entries", "pull", "gc",
          "new_urls", "new_anns", "finish">>
    ELSE
        <<"pull", "push_entries", "push_anns", "del_entries", "del_anns",
          "new_urls", "new_anns", "finish">>

\* The block that follows the one the run is in, once its loop is exhausted.
NextPhase ==
    LET ps == Phases(impl, run.mode)
    IN IF run.pc = "start" THEN ps[1]
       ELSE IF \E i \in 1..(Len(ps) - 1) : ps[i] = run.pc
            THEN ps[1 + CHOOSE i \in 1..(Len(ps) - 1) : ps[i] = run.pc]
            ELSE "none"

\* The loop of the current block is exhausted (or the run has just started).
AtEndOf ==
    /\ run.pc \in {"start", "del_anns", "del_entries", "pull", "push_entries",
                    "push_anns", "gc", "new_urls", "new_anns"}
    /\ run.todo = <<>>

IdleRun(result) ==
    [pc |-> "idle", mode |-> "none", since |-> 0,
     seen_entries |-> {}, seen_annotations |-> {},
     todo |-> <<>>, cur |-> <<>>, anns |-> <<>>, ret |-> "none",
     result |-> result]

\* `?` on an Err: the call returns the error; its locals are gone.
Abort == IdleRun("err")

Call(op, key, ok) == [op |-> op, key |-> key, ok |-> ok]

\* The updated_at noted for a row that does not exist (the None of
\* get_entry / get_annotation); every stored updated_at is greater.
Absent == 0

\* Resolve with the Less arm doing nothing.
Resolve_GreaterIsNoOp(saved, remote_updated_at) ==
    IF saved = <<>> THEN "Pull"
    ELSE IF saved[1].updated_at < remote_updated_at THEN "Pull"
    ELSE "NoOp"

Resolve_LessIsNoOp(saved, remote_updated_at) ==
    IF saved = <<>> THEN "Pull"
    ELSE IF saved[1].updated_at <= remote_updated_at THEN "NoOp"
    ELSE "Push"

\* The match on Ord::cmp(&saved.updated_at, &remote.updated_at), with the
\* `else` branch of `if let Some(saved)`.
Resolve(saved, remote_updated_at) ==
    IF saved = <<>> THEN "Pull"
    ELSE IF saved[1].updated_at < remote_updated_at THEN "Pull"
    ELSE IF saved[1].updated_at = remote_updated_at THEN "NoOp"
    ELSE "Push"

\* The remote calls a run makes for records of the four pending queues.
PendingOps == {"delete_annotation", "delete_entry", "create_entry", "create_annotation"}

PendingCalls(l) == SelectSeq(l, LAMBDA c : c.op \in PendingOps)

\* What the observer notes when the entry-level part of one iteration of the
\* pull loop has succeeded: how the saved copy compared with the listed one,
\* the listed entry, the saved row and the saved annotations' updated_at as
\* they were before, and what the server holds for the entry after a push
\* (the response of update_entry), if one was made.
CaseOf(saved, remote_updated_at) ==
    IF saved = <<>> THEN "absent"
    ELSE IF saved[1].updated_at < remote_updated_at THEN "older"
    ELSE IF saved[1].updated_at = remote_updated_at THEN "equal"
    ELSE "newer"

Observed(d, remote_entry, response) ==
    LET saved == get_entry(d, remote_entry.id)
        anns == remote_entry.annotations
    IN [case |-> CaseOf(saved, remote_entry.updated_at),
        listed |-> remote_entry,
        before |-> saved,
        anns_before |-> [a \in {anns[j].id : j \in 1..Len(anns)} |->
                            IF a \in DOMAIN d.annotations
                            THEN d.annotations[a].ann.updated_at ELSE Absent],
        response |-> response]

\* What the observer notes of the store when a run starts: the keys of the
\* four pending queues, the ids of the stored entries and annotations, and
\* the tags no taglinks row refers to.
AtStart(d) ==
    [deleted_annotations |-> d.deleted_annotations,
     deleted_entries |-> d.deleted_entries,
     new_urls |-> {d.new_urls[i].id : i \in 1..Len(d.new_urls)},
     new_annotations |-> {d.new_annotations[i].id : i \in 1..Len(d.new_annotations)},
     entries |-> DOMAIN d.entries,
     annotations |-> DOMAIN d.annotations,
     unused_tags |-> {t \in d.tags : ~\E l \in d.taglinks : l[2] = t}]

\* Entry of sync / full_sync.
StartSync(mode) ==
    /\ run.pc = "idle"
    /\ hist.runs < MaxRuns
    /\ run' = [IdleRun("none") EXCEPT !.pc = "start", !.mode = mode]
    /\ log' = <<>>
    /\ hist' = [start_last_sync |-> db.last_sync,
                prev_calls |-> PendingCalls(log),
                prev_result |-> run.result,
                runs |-> hist.runs + 1,
                mode |-> mode,
                start_queues |-> AtStart(db),
                listing |-> <<>>,
                created |-> {},
                resolved |-> <<>>,
                done |-> {}]
    /\ UNCHANGED <<db, remote, now, clock, impl>>

\* sync_local_deletes, first loop header: get_annotation_deletes()?
BeginAnnotationDeletes ==
    /\ AtEndOf /\ NextPhase = "del_anns"
    /\ \E outcome \in {"db_fail", "ok"} :
          run' = IF outcome = "db_fail" THEN Abort
                 ELSE [run EXCEPT !.pc = "del_anns",
                                  !.todo = get_annotation_deletes(db)]
    /\ UNCHANGED <<db, remote, log, hist, now, clock, impl>>

\* DeleteAnnotationStep putting the pending annotation deletes back as the
\* run found them when it fails.
DeleteAnnotationStep_Rollback ==
    /\ run.pc = "del_anns" /\ run.todo # <<>>
    /\ \E outcome \in {"remote_fail", "db_fail", "ok"} :
        LET id == Head(run.todo)
            remote_ok == outcome # "remote_fail" /\ CanDeleteAnnotation(remote, id)
        IN /\ log' = Append(log, Call("delete_annotation", id, remote_ok))
           /\ remote' = IF remote_ok THEN client_delete_annotation(remote, id)
                         ELSE remote
           /\ IF remote_ok /\ outcome = "ok"
              THEN /\ db' = remove_delete_annotation(db, id)
                   /\ run' = [run EXCEPT !.todo = Tail(@)]
              ELSE /\ db' = [db EXCEPT !.deleted_annotations =
                                    hist.start_queues.deleted_annotations]
                   /\ run' = Abort
    /\ UNCHANGED <<hist, now, clock, impl>>

\* sync_local_deletes, first loop body:
\*   self.client.delete_annotation(id)?; self.db.remove_delete_annotation(id)?;
DeleteAnnotationStep ==
    /\ run.pc = "del_anns" /\ run.todo # <<>>
    /\ \E outcome \in {"remote_fail", "db_fail", "ok"} :
        LET id == Head(run.todo)
            remote_ok == outcome # "remote_fail" /\ CanDeleteAnnotation(remote, id)
        IN /\ log' = Append(log, Call("delete_annotation", id, remote_ok))
           /\ remote' = IF remote_ok THEN client_delete_annotation(remote, id)
                         ELSE remote
           /\ IF remote_ok /\ outcome = "ok"
              THEN /\ db' = remove_delete_annotation(db, id)
                   /\ run' = [run EXCEPT !.todo = Tail(@)]
              ELSE /\ db' = db
                   /\ run' = Abort
    /\ UNCHANGED <<hist, now, clock, impl>>

\* sync_local_deletes, second loop header: get_entry_deletes()?
BeginEntryDeletes ==
    /\ AtEndOf /\ NextPhase = "del_entries"
    /\ \E outcome \in {"db_fail", "ok"} :
          run' = IF outcome = "db_fail" THEN Abort
                 ELSE [run EXCEPT !.pc = "del_entries",
                                  !.todo = get_entry_deletes(db)]
    /\ UNCHANGED <<db, remote, log, hist, now, clock, impl>>

\* DeleteEntryStep with the record removed before the remote call is made.
DeleteEntryStep_RemoveFirst ==
    /\ run.pc = "del_entries" /\ run.todo # <<>>
    /\ \E outcome \in {"remote_fail", "db_fail", "ok"} :
        LET id == Head(run.todo)
            remote_ok == outcome # "remote_fail" /\ CanDeleteEntry(remote, id)
        IN /\ log' = Append(log, Call("delete_entry", id, remote_ok))
           /\ remote' = IF remote_ok THEN client_delete_entry(remote, id)
                         ELSE remote
           /\ IF outcome = "db_fail"
              THEN db' = db /\ run' = Abort
              ELSE /\ db' = remove_delete_entry(db, id)
                   /\ run' = IF remote_ok THEN [run EXCEPT !.todo = Tail(@)]
                             ELSE Abort
    /\ UNCHANGED <<hist, now, clock, impl>>

\* sync_local_deletes, second loop body:
\*   self.client.delete_entry(id)?; self.db.remove_delete_entry(id)?;
DeleteEntryStep ==
    /\ run.pc = "del_entries" /\ run.todo # <<>>
    /\ \E outcome \in {"remote_fail", "db_fail", "ok"} :
        LET id == Head(run.todo)
            remote_ok == outcome # "remote_fail" /\ CanDeleteEntry(remote, id)
        IN /\ log' = Append(log, Call("delete_entry", id, remote_ok))
           /\ remote' = IF remote_ok THEN client_delete_entry(remote, id)
                         ELSE remote
           /\ IF remote_ok /\ outcome = "ok"
              THEN /\ db' = remove_delete_entry(db, id)
                   /\ run' = [run EXCEPT !.todo = Tail(@)]
              ELSE /\ db' = db
                   /\ run' = Abort
    /\ UNCHANGED <<hist, now, clock, impl>>

\* The ids of the annotations embedded in a listing.
SeenAnnotations(entries) ==
    UNION {{e.annotations[j].id : j \in 1..Len(e.annotations)} : e \in Range(entries)}

\* Entry.annotations is an Option: a listing either embeds each entry's
\* annotations or leaves the field out, which the callers read as no
\* annotations (unwrap_or(&tmp_empty_vec), `if let Some(ref anns)`).
\* sync relies on its filtered listing embedding them ("Entries have tag
\* links and annotations embedded"); the listing of all entries, which
\* full_sync fetches, may come either way.
Embeds(mode) == IF mode = "full_sync" THEN BOOLEAN ELSE {TRUE}

Listed(entries, embed) ==
    [i \in 1..Len(entries) |->
        IF embed THEN entries[i] ELSE [entries[i] EXCEPT !.annotations = <<>>]]

\* What the observer notes of the server when the listing is fetched: the
\* ids of all its entries and annotations, the ids the listing returned and
\* the annotation ids it embedded.
AtListing(r, entries) ==
    [remote_entries |-> DOMAIN r.entries,
     remote_annotations |-> DOMAIN r.annotations,
     entries |-> {e.id : e \in Range(entries)},
     annotations |-> SeenAnnotations(entries)]

\* The listing: sync reads last_sync and asks for the entries since then,
\* full_sync asks for all of them; both build the seen sets from the answer.
FetchEntries ==
    /\ AtEndOf /\ NextPhase = "pull"
    /\ \E outcome \in {"db_fail", "remote_fail", "ok"}, embed \in Embeds(run.mode) :
        LET since == IF run.mode = "sync" THEN get_last_sync(db) ELSE 0
            entries == Listed(IF run.mode = "sync"
                              THEN client_get_entries_with_filter(remote, timestamp(since))
                              ELSE client_get_entries(remote), embed)
        IN IF outcome = "db_fail" /\ run.mode = "sync"
           THEN run' = Abort /\ log' = log /\ hist' = hist
           ELSE IF outcome = "remote_fail"
           THEN /\ run' = Abort /\ hist' = hist
                /\ log' = Append(log, Call("get_entries", 0, FALSE))
           ELSE /\ log' = Append(log, Call("get_entries", 0, TRUE))
                /\ hist' = [hist EXCEPT !.listing = <<AtListing(remote, entries)>>]
                /\ run' = [run EXCEPT
                       !.pc = "pull",
                       !.since = since,
                       !.todo = entries,
                       !.seen_entries = {e.id : e \in Range(entries)},
                       !.seen_annotations = SeenAnnotations(entries)]
    /\ UNCHANGED <<db, remote, now, clock, impl>>

\* Back to the loop that called pull_entry or walked an equal entry's
\* annotations: the `for remote_entry in entries` loop takes its next item.
NextEntry(r) ==
    [r EXCEPT !.pc = "pull", !.todo = Tail(@), !.cur = <<>>, !.anns = <<>>,
              !.ret = "none"]

\* Whether an entry whose updated_at equals the saved one still has its
\* embedded annotations reconciled.
EqualRecurses(i) == i = "backend"

\* pull_entry called with the listed entry in every arm.
PulledEntry_Listed(action, remote_entry, updated_entry) == remote_entry

\* The entry pull_entry is called with: the server's answer to the push in
\* the Greater arm, the listed entry in the Less arm and the else branch.
PulledEntry(action, remote_entry, updated_entry) ==
    IF action = "Push" THEN updated_entry ELSE remote_entry

\* One iteration of `for remote_entry in entries`, up to and including the
\* save_entry that opens pull_entry.
ResolveEntry ==
    /\ run.pc = "pull" /\ run.todo # <<>>
    /\ \E outcome \in {"db_read_fail", "remote_fail", "db_write_fail", "ok"} :
        LET remote_entry == Head(run.todo)
            saved == get_entry(db, remote_entry.id)
            action == Resolve(saved, remote_entry.updated_at)
            remote_ok == outcome # "remote_fail"
                         /\ CanUpdateEntry(remote, remote_entry.id)
            pushed == client_update_entry(remote, saved[1].id, PatchEntry(saved[1]), now)
            updated_entry == RemoteEntry(pushed, remote_entry.id)
            pulled == PulledEntry(action, remote_entry, updated_entry)
        IN IF outcome = "db_read_fail"
           THEN run' = Abort /\ UNCHANGED <<db, remote, log>>
           ELSE IF action = "NoOp"
           THEN /\ run' = IF EqualRecurses(impl) /\ remote_entry.annotations # <<>>
                           THEN [run EXCEPT !.pc = "eq_anns",
                                            !.cur = <<remote_entry>>,
                                            !.anns = remote_entry.annotations]
                           ELSE NextEntry(run)
                /\ UNCHANGED <<db, remote, log>>
           ELSE IF action = "Push" /\ ~remote_ok
           THEN /\ run' = Abort
                /\ log' = Append(log, Call("update_entry", remote_entry.id, FALSE))
                /\ UNCHANGED <<db, remote>>
           ELSE /\ remote' = IF action = "Push" THEN pushed ELSE remote
                /\ log' = IF action = "Push"
                          THEN Append(log, Call("update_entry", remote_entry.id, TRUE))
                          ELSE log
                /\ IF outcome = "db_write_fail"
                   THEN run' = Abort /\ db' = db
                   ELSE /\ db' = save_entry(db, pulled)
                        /\ run' = [run EXCEPT !.pc = "pe_anns",
                                               !.cur = <<pulled>>,
                                               !.anns = pulled.annotations,
                                               !.ret = "pull"]
    /\ hist' = IF run'.pc = "idle" THEN hist
               ELSE LET remote_entry == Head(run.todo)
                        response ==
                            IF remote' = remote THEN <<>>
                            ELSE <<RemoteEntry(remote', remote_entry.id)>>
                    IN [hist EXCEPT
                          !.resolved = Put(@, remote_entry.id,
                              Observed(db, remote_entry, response)),
                          !.done = IF run'.pc = "pull"
                                   THEN @ \cup {remote_entry.id} ELSE @]
    /\ UNCHANGED <<now, clock, impl>>

\* sync_annotation saving the listed annotation after a push, not the one
\* the server returned.
sync_annotation_SavesListed(d, r, ann, entry_id, outcome, t) ==
    LET saved == get_annotation(d, ann.id)
        action == Resolve(saved, ann.updated_at)
        remote_ok == outcome # "remote_fail" /\ CanUpdateAnnotation(r, ann.id)
        pushed == client_update_annotation(r, saved[1], t)
        same == [db |-> d, remote |-> r, calls |-> <<>>, err |-> FALSE]
    IN IF outcome = "db_read_fail" THEN [same EXCEPT !.err = TRUE]
       ELSE IF action = "NoOp" THEN same
       ELSE IF action = "Pull"
       THEN IF outcome = "db_write_fail" THEN [same EXCEPT !.err = TRUE]
            ELSE [same EXCEPT !.db = save_annotation(d, ann, entry_id)]
       ELSE IF ~remote_ok
       THEN [same EXCEPT !.calls = <<Call("update_annotation", ann.id, FALSE)>>,
                         !.err = TRUE]
       ELSE IF outcome = "db_write_fail"
       THEN [same EXCEPT !.remote = pushed,
                         !.calls = <<Call("update_annotation", ann.id, TRUE)>>,
                         !.err = TRUE]
       ELSE [db |-> save_annotation(d, ann, entry_id),
             remote |-> pushed,
             calls |-> <<Call("update_annotation", ann.id, TRUE)>>,
             err |-> FALSE]

\* Backend::sync_annotation for one annotation `ann` of entry `entry_id`,
\* given the outcome of its fallible calls: the store and the server after
\* it, the remote calls it made and whether it returned an error.
sync_annotation(d, r, ann, entry_id, outcome, t) ==
    LET saved == get_annotation(d, ann.id)
        action == Resolve(saved, ann.updated_at)
        remote_ok == outcome # "remote_fail" /\ CanUpdateAnnotation(r, ann.id)
        pushed == client_update_annotation(r, saved[1], t)
        updated_ann == pushed.annotations[ann.id].ann
        same == [db |-> d, remote |-> r, calls |-> <<>>, err |-> FALSE]
    IN IF outcome = "db_read_fail" THEN [same EXCEPT !.err = TRUE]
       ELSE IF action = "NoOp" THEN same
       ELSE IF action = "Pull"
       THEN IF outcome = "db_write_fail" THEN [same EXCEPT !.err = TRUE]
            ELSE [same EXCEPT !.db = save_annotation(d, ann, entry_id)]
       ELSE IF ~remote_ok
       THEN [same EXCEPT !.calls = <<Call("update_annotation", ann.id, FALSE)>>,
                         !.err = TRUE]
       ELSE IF outcome = "db_write_fail"
       THEN [same EXCEPT !.remote = pushed,
                         !.calls = <<Call("update_annotation", ann.id, TRUE)>>,
                         !.err = TRUE]
       ELSE [db |-> save_annotation(d, updated_ann, entry_id),
             remote |-> pushed,
             calls |-> <<Call("update_annotation", ann.id, TRUE)>>,
             err |-> FALSE]

\* Whether an error of sync_annotation inside pull_entry ends the run
\* (`self.sync_annotation(..)?`) or is dropped (`self.sync_annotation(..);`).
PullPropagates(i) == i = "backend"

\* One iteration of `for ann in anns { self.sync_annotation(ann, entry) }`,
\* in pull_entry (pe_anns) or in the Equal arm (eq_anns).
SyncAnnotationStep ==
    /\ run.pc \in {"pe_anns", "eq_anns"} /\ run.anns # <<>>
    /\ \E outcome \in {"db_read_fail", "remote_fail", "db_write_fail", "ok"} :
        LET res == sync_annotation(db, remote, Head(run.anns), run.cur[1].id,
                                   outcome, now)
            rest == Tail(run.anns)
        IN /\ db' = res.db
           /\ remote' = res.remote
           /\ log' = log \o res.calls
           /\ run' = IF res.err /\ (run.pc = "eq_anns" \/ PullPropagates(impl))
                     THEN Abort
                     ELSE IF run.pc = "eq_anns" /\ rest = <<>>
                     THEN NextEntry(run)
                     ELSE [run EXCEPT !.anns = rest]
    /\ hist' = IF run.pc = "eq_anns" /\ run'.pc = "pull"
               THEN [hist EXCEPT !.done = @ \cup {run.cur[1].id}] ELSE hist
    /\ UNCHANGED <<now, clock, impl>>

\* The end of pull_entry: the tag links of the entry are rebuilt; then the
\* caller goes on: the pull loop takes its next entry, the new-url loop
\* removes the pending record (remove_new_url) and takes its next one.
RebuildTagLinks ==
    /\ run.pc = "pe_anns" /\ run.anns = <<>>
    /\ \E outcome \in {"drop_fail", "save_fail", "remove_fail", "ok"} :
        LET entry == run.cur[1]
            dropped == drop_tag_links_for_entry(db, entry.id)
            rebuilt == rebuild_tag_links(db, entry)
        IN IF outcome = "drop_fail"
           THEN run' = Abort /\ db' = db
           ELSE IF outcome = "save_fail" /\ entry.tags # {}
           THEN run' = Abort /\ db' = dropped
           ELSE IF run.ret = "pull"
           THEN run' = NextEntry(run) /\ db' = rebuilt
           ELSE IF outcome = "remove_fail"
           THEN run' = Abort /\ db' = rebuilt
           ELSE /\ db' = remove_new_url(rebuilt, Head(run.todo).id)
                /\ run' = [NextEntry(run) EXCEPT !.pc = "new_urls"]
    /\ hist' = IF run.ret = "pull" /\ run'.pc = "pull"
               THEN [hist EXCEPT !.done = @ \cup {run.cur[1].id}] ELSE hist
    /\ UNCHANGED <<remote, log, now, clock, impl>>

RECURSIVE DeleteEntries(_, _)
\* `for entry_id in remotely_deleted_entries { self.db.delete_entry(id)? }`
DeleteEntries(d, ids) ==
    IF ids = <<>> THEN d ELSE DeleteEntries(delete_entry(d, Head(ids)), Tail(ids))

RECURSIVE DeleteAnnotations(_, _)
\* `for ann_id in remotely_deleted_anns { self.db.delete_annotation(id)? }`
DeleteAnnotations(d, ids) ==
    IF ids = <<>> THEN d
    ELSE DeleteAnnotations(delete_annotation(d, Head(ids)), Tail(ids))

\* full_sync only: every local entry, then every local annotation, whose id
\* was not in the listing is deleted from the store.  A store error ends the
\* run after the ke entries and ka annotations already deleted.
DeleteRemotelyDeleted ==
    /\ AtEndOf /\ NextPhase = "gc"
    /\ LET remotely_deleted_entries ==
               SetToSeq(get_all_entry_ids(db) \ run.seen_entries)
           after_entries == DeleteEntries(db, remotely_deleted_entries)
           remotely_deleted_anns ==
               SetToSeq(get_all_annotation_ids(after_entries) \ run.seen_annotations)
       IN \E fail \in BOOLEAN,
             ke \in 0..Len(remotely_deleted_entries),
             ka \in 0..Len(remotely_deleted_anns) :
            IF fail
            THEN /\ ke < Len(remotely_deleted_entries) => ka = 0
                 /\ db' = IF ke < Len(remotely_deleted_entries)
                           THEN DeleteEntries(db,
                                    SubSeq(remotely_deleted_entries, 1, ke))
                           ELSE DeleteAnnotations(after_entries,
                                    SubSeq(remotely_deleted_anns, 1, ka))
                 /\ run' = Abort
            ELSE /\ ke = Len(remotely_deleted_entries)
                 /\ ka = Len(remotely_deleted_anns)
                 /\ db' = DeleteAnnotations(after_entries, remotely_deleted_anns)
                 /\ run' = [run EXCEPT !.pc = "gc"]
    /\ UNCHANGED <<remote, log, hist, now, clock, impl>>

\* sync only, loop header: the local entries updated since last_sync; the
\* loop body skips the ones the listing has seen.
BeginPushEntries ==
    /\ AtEndOf /\ NextPhase = "push_entries"
    /\ \E outcome \in {"db_fail", "ok"} :
          run' = IF outcome = "db_fail" THEN Abort
                 ELSE [run EXCEPT
                         !.pc = "push_entries",
                         !.todo = SelectSeq(get_entries_since(db, run.since),
                                    LAMBDA e : e.id \notin run.seen_entries)]
    /\ UNCHANGED <<db, remote, log, hist, now, clock, impl>>

\* sync only, loop body: self.client.update_entry(entry.id, &(&entry).into())?;
PushEntryStep ==
    /\ run.pc = "push_entries" /\ run.todo # <<>>
    /\ \E outcome \in {"remote_fail", "ok"} :
        LET entry == Head(run.todo)
            remote_ok == outcome # "remote_fail" /\ CanUpdateEntry(remote, entry.id)
        IN /\ log' = Append(log, Call("update_entry", entry.id, remote_ok))
           /\ remote' = IF remote_ok
                         THEN client_update_entry(remote, entry.id,
                                                  PatchEntry(entry), now)
                         ELSE remote
           /\ run' = IF remote_ok THEN [run EXCEPT !.todo = Tail(@)] ELSE Abort
    /\ UNCHANGED <<db, hist, now, clock, impl>>

\* sync only, loop header: the local annotations updated since last_sync.
BeginPushAnnotations ==
    /\ AtEndOf /\ NextPhase = "push_anns"
    /\ \E outcome \in {"db_fail", "ok"} :
          run' = IF outcome = "db_fail" THEN Abort
                 ELSE [run EXCEPT
                         !.pc = "push_anns",
                         !.todo = SelectSeq(get_annotations_since(db, run.since),
                                    LAMBDA a : a.id \notin run.seen_annotations)]
    /\ UNCHANGED <<db, remote, log, hist, now, clock, impl>>

\* sync only, loop body: self.client.update_annotation(&ann)?;
PushAnnotationStep ==
    /\ run.pc = "push_anns" /\ run.todo # <<>>
    /\ \E outcome \in {"remote_fail", "ok"} :
        LET ann == Head(run.todo)
            remote_ok == outcome # "remote_fail" /\ CanUpdateAnnotation(remote, ann.id)
        IN /\ log' = Append(log, Call("update_annotation", ann.id, remote_ok))
           /\ remote' = IF remote_ok THEN client_update_annotation(remote, ann, now)
                         ELSE remote
           /\ run' = IF remote_ok THEN [run EXCEPT !.todo = Tail(@)] ELSE Abort
    /\ UNCHANGED <<db, hist, now, clock, impl>>

\* Loop header: get_new_urls()?
BeginNewUrls ==
    /\ AtEndOf /\ NextPhase = "new_urls"
    /\ \E outcome \in {"db_fail", "ok"} :
          run' = IF outcome = "db_fail" THEN Abort
                 ELSE [run EXCEPT !.pc = "new_urls", !.todo = get_new_urls(db)]
    /\ UNCHANGED <<db, remote, log, hist, now, clock, impl>>

\* Loop body, first half: create_entry(&new_entry)? and the save_entry that
\* opens pull_entry(&entry); RebuildTagLinks ends the iteration.
CreateEntryStep ==
    /\ run.pc = "new_urls" /\ run.todo # <<>>
    /\ \E outcome \in {"remote_fail", "db_write_fail", "ok"} :
        LET new_url == Head(run.todo)
            remote_ok == outcome # "remote_fail" /\ CanCreateEntry(remote)
            created == client_create_entry(remote, new_url.url, now)
            entry == RemoteEntry(created, remote.next_entry_id)
        IN /\ log' = Append(log, Call("create_entry", new_url.id, remote_ok))
           /\ remote' = IF remote_ok THEN created ELSE remote
           /\ hist' = IF remote_ok
                      THEN [hist EXCEPT !.created = @ \cup
                               {[op |-> "create_entry", key |-> new_url.id,
                                 id |-> entry.id, entity |-> entry]}]
                      ELSE hist
           /\ IF remote_ok /\ outcome = "ok"
              THEN /\ db' = save_entry(db, entry)
                   /\ run' = [run EXCEPT !.pc = "pe_anns",
                                          !.cur = <<entry>>,
                                          !.anns = entry.annotations,
                                          !.ret = "new_urls"]
              ELSE db' = db /\ run' = Abort
    /\ UNCHANGED <<now, clock, impl>>

\* Loop header: get_new_annotations()?
BeginNewAnnotations ==
    /\ AtEndOf /\ NextPhase = "new_anns"
    /\ \E outcome \in {"db_fail", "ok"} :
          run' = IF outcome = "db_fail" THEN Abort
                 ELSE [run EXCEPT !.pc = "new_anns",
                                  !.todo = get_new_annotations(db)]
    /\ UNCHANGED <<db, remote, log, hist, now, clock, impl>>

\* Whether an error of remove_new_annotation ends the run
\* (`remove_new_annotation(id)?`) or is dropped (`remove_new_annotation(id);`).
RemovePropagates(i) == i = "backend"

\* Loop body: create_annotation(entry_id, &new_ann)?;
\*   save_annotation(&ann, entry_id)?; remove_new_annotation(new_ann_id)
CreateAnnotationStep ==
    /\ run.pc = "new_anns" /\ run.todo # <<>>
    /\ \E outcome \in {"remote_fail", "db_write_fail", "remove_fail", "ok"} :
        LET new_ann == Head(run.todo)
            remote_ok == outcome # "remote_fail"
                         /\ CanCreateAnnotation(remote, new_ann.entry_id)
            created == client_create_annotation(remote, new_ann.entry_id, new_ann, now)
            ann == created.annotations[remote.next_ann_id].ann
            saved == save_annotation(db, ann, new_ann.entry_id)
        IN /\ log' = Append(log, Call("create_annotation", new_ann.id, remote_ok))
           /\ remote' = IF remote_ok THEN created ELSE remote
           /\ hist' = IF remote_ok
                      THEN [hist EXCEPT !.created = @ \cup
                               {[op |-> "create_annotation", key |-> new_ann.id,
                                 id |-> ann.id, entity |-> ann]}]
                      ELSE hist
           /\ IF ~remote_ok \/ outcome = "db_write_fail"
              THEN db' = db /\ run' = Abort
              ELSE IF outcome = "remove_fail"
              THEN /\ db' = saved
                   /\ run' = IF RemovePropagates(impl) THEN Abort
                             ELSE [run EXCEPT !.todo = Tail(@)]
              ELSE /\ db' = remove_new_annotation(saved, new_ann.id)
                   /\ run' = [run EXCEPT !.todo = Tail(@)]
    /\ UNCHANGED <<now, clock, impl>>

\* Finish with the watermark touched along with the tag clean-up, before
\* the last fallible call has returned.
Finish_TouchFirst ==
    /\ AtEndOf /\ NextPhase = "finish"
    /\ \E outcome \in {"gc_fail", "touch_fail", "ok"}, t \in ClockReadings :
          IF outcome = "gc_fail"
          THEN t = clock /\ db' = db /\ run' = Abort /\ UNCHANGED <<now, clock>>
          ELSE IF outcome = "touch_fail"
          THEN /\ t = clock /\ UNCHANGED <<now, clock>>
               /\ db' = touch_last_sync(delete_unused_tags(db), t) /\ run' = Abort
          ELSE /\ db' = touch_last_sync(delete_unused_tags(db), t)
               /\ clock' = t
               /\ now' = IF t > now THEN t ELSE now
               /\ run' = IdleRun("ok")
    /\ UNCHANGED <<remote, log, hist, impl>>

\* The last two statements: delete_unused_tags()?; touch_last_sync()?; Ok(())
Finish ==
    /\ AtEndOf /\ NextPhase = "finish"
    /\ \E outcome \in {"gc_fail", "touch_fail", "ok"}, t \in ClockReadings :
          IF outcome = "gc_fail"
          THEN t = clock /\ db' = db /\ run' = Abort /\ UNCHANGED <<now, clock>>
          ELSE IF outcome = "touch_fail"
          THEN /\ t = clock /\ UNCHANGED <<now, clock>>
               /\ db' = delete_unused_tags(db) /\ run' = Abort
          ELSE /\ db' = touch_last_sync(delete_unused_tags(db), t)
               /\ clock' = t
               /\ now' = IF t > now THEN t ELSE now
               /\ run' = IdleRun("ok")
    /\ UNCHANGED <<remote, log, hist, impl>>

---------------------------------------------------------------------------
(* Initial states: a store and a server that earlier use has left behind.  *)

Tags0 == {1}

LocalEntry(id, t, tr) ==
    [id |-> id, updated_at |-> t,
     content |-> IF t = tr THEN "r" ELSE "l", tags |-> Tags0]

LocalAnn(id, t, tr) ==
    [ann |-> [id |-> id, updated_at |-> t, text |-> IF t = tr THEN "r" ELSE "l"],
     entry_id |-> AnnEntry(id)]

\* le, re: updated_at of the local and the remote copy of each entry;
\* la, ra: the same for annotation 1; annotation 2 exists on the server
\* with its entry.
InitStore(le, la, ra, re, dels_a, dels_e, urls, anns, ls) ==
    [entries |-> [id \in {i \in EntryIds : le[i] # Absent} |->
                     LocalEntry(id, le[id], re[id])],
     annotations |-> [id \in {i \in {1} : la # Absent} |-> LocalAnn(id, la, ra)],
     tags |-> IF \E i \in EntryIds : le[i] # Absent THEN Tags0 ELSE {},
     taglinks |-> {<<i, t>> : i \in {j \in EntryIds : le[j] # Absent}, t \in Tags0},
     new_urls |-> urls,
     new_annotations |-> anns,
     deleted_entries |-> dels_e,
     deleted_annotations |-> dels_a,
     last_sync |-> ls]

InitRemote(re, ra) ==
    [entries |-> [id \in {i \in EntryIds : re[i] # Absent} |->
                     [updated_at |-> re[id], content |-> "r", tags |-> Tags0]],
     annotations |->
         [id \in {i \in AnnIds : IF i = 1 THEN ra # Absent ELSE re[2] # Absent} |->
             [ann |-> [id |-> id, updated_at |-> IF id = 1 THEN ra ELSE Res,
                       text |-> "r"],
              entry_id |-> AnnEntry(id)]],
     next_entry_id |-> 3,
     next_ann_id |-> 3]

\* Entry 1, <<local updated_at, remote updated_at>>: the local copy older,
\* equal, newer (edited locally, within the same second or a second later),
\* not yet pulled, or deleted on the server.
Entry1Cases ==
    {<<Res, 2 * Res>>, <<Res, Res>>, <<Res + 1, Res>>, <<2 * Res, Res>>,
     <<Absent, Res>>, <<Res, Absent>>}

\* Annotation 1 (of entry 1), <<local updated_at, remote updated_at, pending
\* local delete>>: the cases of entry 1, neither side having it, or deleted
\* locally with the delete still pending.
Ann1Cases(e1) ==
    {c \in {<<Res, 2 * Res, FALSE>>, <<Res, Res, FALSE>>, <<Res + 1, Res, FALSE>>,
            <<2 * Res, Res, FALSE>>, <<Absent, Res, FALSE>>, <<Res, Absent, FALSE>>,
            <<Absent, Absent, FALSE>>, <<Absent, Res, TRUE>>} :
        /\ c[1] # Absent => e1[1] # Absent
        /\ c[2] # Absent => e1[2] # Absent}

\* Entry 2 and its annotation 2, <<local updated_at, remote updated_at,
\* pending local delete of the entry, pending local delete of annotation 2>>.
Entry2Cases ==
    {<<Res, Res, FALSE, FALSE>>, <<Res, Res, FALSE, TRUE>>,
     <<Res, Absent, FALSE, FALSE>>, <<Absent, Res, FALSE, FALSE>>,
     <<Absent, Res, TRUE, TRUE>>}

\* Whether a url and an annotation of entry 1 wait to be created: with
\* entry 2 in step with the server or with its deletes pending.
CreatesCases(e2) ==
    IF e2 \in {<<Res, Res, FALSE, FALSE>>, <<Absent, Res, TRUE, TRUE>>}
    THEN BOOLEAN ELSE {FALSE}

InitWith(i) ==
    /\ impl = i
    /\ now = StartTime
    /\ clock = StartTime
    /\ run = IdleRun("none")
    /\ log = <<>>
    /\ \E e1 \in Entry1Cases, e2 \in Entry2Cases, ls \in {Res + 1, 2 * Res} :
        \E creates \in CreatesCases(e2) :
        \E a1 \in Ann1Cases(e1) :
          LET le == [id \in EntryIds |-> IF id = 1 THEN e1[1] ELSE e2[1]]
              re == [id \in EntryIds |-> IF id = 1 THEN e1[2] ELSE e2[2]]
              dels_a == (IF a1[3] THEN {1} ELSE {}) \cup (IF e2[4] THEN {2} ELSE {})
              dels_e == IF e2[3] THEN {2} ELSE {}
              urls == IF creates THEN <<[id |-> 1, url |-> "u"]>> ELSE <<>>
              anns == IF creates
                      THEN <<[id |-> 1, entry_id |-> 1, text |-> "n"]>> ELSE <<>>
          IN /\ db = InitStore(le, a1[1], a1[2], re, dels_a, dels_e, urls, anns, ls)
             /\ remote = InitRemote(re, a1[2])
             /\ hist = [start_last_sync |-> ls, prev_calls |-> <<>>,
                        prev_result |-> "none", runs |-> 0,
                        mode |-> "none",
                        start_queues |-> [deleted_annotations |-> {},
                                          deleted_entries |-> {},
                                          new_urls |-> {},
                                          new_annotations |-> {},
                                          entries |-> {},
                                          annotations |-> {},
                                          unused_tags |-> {}],
                        listing |-> <<>>, created |-> {},
                        resolved |-> <<>>, done |-> {}]

Init == InitWith("backend")

Next ==
    \/ StartSync("sync")
    \/ StartSync("full_sync")
    \/ BeginAnnotationDeletes
    \/ DeleteAnnotationStep
    \/ BeginEntryDeletes
    \/ DeleteEntryStep
    \/ FetchEntries
    \/ ResolveEntry
    \/ SyncAnnotationStep
    \/ RebuildTagLinks
    \/ DeleteRemotelyDeleted
    \/ BeginPushEntries
    \/ PushEntryStep
    \/ BeginPushAnnotations
    \/ PushAnnotationStep
    \/ BeginNewUrls
    \/ CreateEntryStep
    \/ BeginNewAnnotations
    \/ CreateAnnotationStep
    \/ Finish

Spec == Init /\ [][Next]_vars

\* The command line tool's Backend: it has sync only (full_sync is
\* unimplemented!()).
InitCli == InitWith("cli")

NextCli ==
    \/ StartSync("sync")
    \/ FetchEntries
    \/ ResolveEntry
    \/ SyncAnnotationStep
    \/ RebuildTagLinks
    \/ BeginPushEntries
    \/ PushEntryStep
    \/ BeginPushAnnotations
    \/ PushAnnotationStep
    \/ BeginEntryDeletes
    \/ DeleteEntryStep
    \/ BeginAnnotationDeletes
    \/ DeleteAnnotationStep
    \/ BeginNewUrls
    \/ CreateEntryStep
    \/ BeginNewAnnotations
    \/ CreateAnnotationStep
    \/ Finish

SpecCli == InitCli /\ [][NextCli]_vars

\* The server as other clients use it while a sync is under way: after the
\* listing has been fetched and before the call returns, an entry is
\* edited on the server, which stamps it with its clock.
RemoteEdit ==
    /\ run.mode = "sync" /\ run.pc # "idle" /\ hist.listing # <<>>
    /\ \E id \in DOMAIN remote.entries :
          remote' = client_update_entry(remote, id,
                        [content |-> "e", tags |-> remote.entries[id].tags], now)
    /\ UNCHANGED <<db, run, log, hist, now, clock, impl>>

\* Every entry the server holds with an updated_at before w is in the local
\* store with the same updated_at.
ConsistentBelow(d, r, w) ==
    \A id \in DOMAIN r.entries :
        r.entries[id].updated_at < w =>
            /\ id \in DOMAIN d.entries
            /\ d.entries[id].updated_at = r.entries[id].updated_at

\* The entries of the store with a change the next sync has yet to send:
\* queued for deletion, or updated since last_sync.
LocallyChanged(d) ==
    d.deleted_entries
        \cup {id \in DOMAIN d.entries : d.entries[id].updated_at >= d.last_sync}

\* The initial states in which the store is consistent with the server
\* below its last_sync, but for the entries with a local change to send.
InitRace ==
    /\ InitWith("backend")
    /\ ConsistentBelow(db, [remote EXCEPT !.entries =
                               [id \in DOMAIN remote.entries \ LocallyChanged(db)
                                   |-> remote.entries[id]]],
                       db.last_sync)

NextRace ==
    \/ StartSync("sync")
    \/ StartSync("full_sync")
    \/ BeginAnnotationDeletes
    \/ DeleteAnnotationStep
    \/ BeginEntryDeletes
    \/ DeleteEntryStep
    \/ FetchEntries
    \/ ResolveEntry
    \/ SyncAnnotationStep
    \/ RebuildTagLinks
    \/ DeleteRemotelyDeleted
    \/ BeginPushEntries
    \/ PushEntryStep
    \/ BeginPushAnnotations
    \/ PushAnnotationStep
    \/ BeginNewUrls
    \/ CreateEntryStep
    \/ BeginNewAnnotations
    \/ CreateAnnotationStep
    \/ Finish
    \/ RemoteEdit

\* Backend::sync and full_sync against a server that other clients change.
SpecRace == InitRace /\ [][NextRace]_vars

\* The same initial states with nobody else changing the server.
SpecQuiet == InitRace /\ [][Next]_vars

\* The filtered listing of sync answered without the annotations field
\* (Entry.annotations is an Option; the seen sets read a missing field as no
\* annotations), while the response to a push carries the annotations.
FetchEntriesBare ==
    /\ AtEndOf /\ NextPhase = "pull" /\ run.mode = "sync"
    /\ LET since == get_last_sync(db)
           entries == Listed(client_get_entries_with_filter(remote,
                                 timestamp(since)), FALSE)
       IN /\ log' = Append(log, Call("get_entries", 0, TRUE))
          /\ hist' = [hist EXCEPT !.listing = <<AtListing(remote, entries)>>]
          /\ run' = [run EXCEPT
                 !.pc = "pull",
                 !.since = since,
                 !.todo = entries,
                 !.seen_entries = {e.id : e \in Range(entries)},
                 !.seen_annotations = SeenAnnotations(entries)]
    /\ UNCHANGED <<db, remote, now, clock, impl>>

NextBare ==
    \/ StartSync("sync")
    \/ StartSync("full_sync")
    \/ BeginAnnotationDeletes
    \/ DeleteAnnotationStep
    \/ BeginEntryDeletes
    \/ DeleteEntryStep
    \/ FetchEntries
    \/ FetchEntriesBare
    \/ ResolveEntry
    \/ SyncAnnotationStep
    \/ RebuildTagLinks
    \/ DeleteRemotelyDeleted
    \/ BeginPushEntries
    \/ PushEntryStep
    \/ BeginPushAnnotations
    \/ PushAnnotationStep
    \/ BeginNewUrls
    \/ CreateEntryStep
    \/ BeginNewAnnotations
    \/ CreateAnnotationStep
    \/ Finish

\* Backend::sync and full_sync against a server whose listings may leave the
\* annotations out.
SpecBare == Init /\ [][NextBare]_vars

\* Whether the server can serve a call; a call on an entity it does not hold
\* is answered 404 Not Found however often it is sent.
Serves(r, d, call) ==
    CASE call.op = "delete_annotation" -> CanDeleteAnnotation(r, call.key)
      [] call.op = "delete_entry" -> CanDeleteEntry(r, call.key)
      [] call.op = "update_entry" -> CanUpdateEntry(r, call.key)
      [] call.op = "update_annotation" -> CanUpdateAnnotation(r, call.key)
      [] call.op = "create_annotation" ->
            \E n \in Range(d.new_annotations) :
                n.id = call.key /\ CanCreateAnnotation(r, n.entry_id)
      [] OTHER -> TRUE

\* The step ends the run on the server's refusal of its last call.
Refused ==
    /\ Len(log') > Len(log)
    /\ ~log'[Len(log')].ok
    /\ ~Serves(remote, db, log'[Len(log')])

\* The step ends the run on a failure that a later attempt need not meet
\* again: the network, or the storage.
Transient == run'.pc = "idle" /\ run'.result = "err" /\ ~Refused

\* Failures stop in the end: the last run meets no transient one.
Faultless == hist.runs = MaxRuns => ~Transient

\* sync called once more after the runs that are counted: the caller goes
\* on calling it whatever the last run returned.
StartSyncAgain ==
    /\ run.pc = "idle"
    /\ hist.runs = MaxRuns
    /\ run' = [IdleRun("none") EXCEPT !.pc = "start", !.mode = "sync"]
    /\ log' = <<>>
    /\ hist' = [start_last_sync |-> db.last_sync,
                prev_calls |-> PendingCalls(log),
                prev_result |-> run.result,
                runs |-> hist.runs,
                mode |-> "sync",
                start_queues |-> AtStart(db),
                listing |-> <<>>,
                created |-> {},
                resolved |-> <<>>,
                done |-> {}]
    /\ UNCHANGED <<db, remote, now, clock, impl>>

\* sync invoked again and again, nothing else changing the store or the
\* server.
NextLive ==
    \/ StartSync("sync")
    \/ StartSyncAgain
    \/ BeginAnnotationDeletes /\ Faultless
    \/ DeleteAnnotationStep /\ Faultless
    \/ BeginEntryDeletes /\ Faultless
    \/ DeleteEntryStep /\ Faultless
    \/ FetchEntries /\ Faultless
    \/ ResolveEntry /\ Faultless
    \/ SyncAnnotationStep /\ Faultless
    \/ RebuildTagLinks /\ Faultless
    \/ BeginPushEntries /\ Faultless
    \/ PushEntryStep /\ Faultless
    \/ BeginPushAnnotations /\ Faultless
    \/ PushAnnotationStep /\ Faultless
    \/ BeginNewUrls /\ Faultless
    \/ CreateEntryStep /\ Faultless
    \/ BeginNewAnnotations /\ Faultless
    \/ CreateAnnotationStep /\ Faultless
    \/ Finish /\ Faultless

\* Every run that was started runs to its return, and sync is called again
\* after every return.
SpecLive == Init /\ [][NextLive]_vars /\ WF_vars(NextLive)

---------------------------------------------------------------------------
(* The operations of the local store called one at a time, db.rs.  Here     *)
(* hist holds the call made last: its name, its argument, its result and    *)
(* the store it was made on.                                                *)

StoreTags == {1, 2}

StoreStamps == {Res, 2 * Res}

\* The file of the store: whether it exists, and whether up.sql has created
\* its tables.
OnFile(d, file, schema) == d @@ [file |-> file, schema |-> schema]

\* The store up() creates.
EmptyStore ==
    [entries |-> <<>>, annotations |-> <<>>, tags |-> {}, taglinks |-> {},
     new_urls |-> <<>>, new_annotations |-> <<>>,
     deleted_entries |-> {}, deleted_annotations |-> {}, last_sync |-> 0]

up(d) == OnFile(EmptyStore, TRUE, TRUE)

\* A store holding the entries es and annotations as, the tags ts and the
\* tag links ls.
StoreOf(es, as, ts, ls) ==
    OnFile([EmptyStore EXCEPT
               !.entries = [id \in es |-> LocalEntry(id, Res, Res)],
               !.annotations = [id \in as |-> LocalAnn(id, Res, Res)],
               !.tags = ts,
               !.taglinks = ls,
               !.last_sync = Res + 1],
           TRUE, TRUE)

\* The entries and annotations handed to save_entry and save_annotation.
StoreEntries ==
    [id : EntryIds, updated_at : StoreStamps, content : {"s"}, tags : SUBSET StoreTags]

StoreAnnotations == [id : AnnIds, updated_at : StoreStamps, text : {"s"}]

NoCall == [op |-> "none", arg |-> <<>>, result |-> "none", before |-> <<>>]

Made(op, arg, result) ==
    [op |-> op, arg |-> arg, result |-> result, before |-> <<db>>]

InitStoreOps ==
    /\ impl \in {"backend", "cli"}
    /\ now = StartTime
    /\ clock = StartTime
    /\ run = IdleRun("none")
    /\ log = <<>>
    /\ remote = InitRemote([id \in EntryIds |-> Absent], Absent)
    /\ hist = NoCall
    /\ \/ db = OnFile(EmptyStore, FALSE, FALSE)
       \/ \E es \in SUBSET EntryIds, as \in SUBSET AnnIds, ts \in SUBSET StoreTags :
            \E ls \in SUBSET (EntryIds \X ts) :
               db = StoreOf(es, as, ts, ls)

\* fn conn (wallabag-backend): a missing file is created and its tables
\* set up before the connection is opened.
conn(d) == IF d.file THEN d ELSE up(d)

\* A call on the store: conn()? first, then the statement, which fails
\* when the tables are missing or when the storage fails.
StoreOutcomes == {"conn_fail", "db_fail", "ok"}

ResultOf(outcome) == IF outcome = "ok" /\ conn(db).schema THEN "ok" ELSE "err"

After(outcome, effect) ==
    IF outcome = "conn_fail" THEN db
    ELSE IF ResultOf(outcome) = "err" THEN conn(db)
    ELSE effect

StoreSaveEntry ==
    /\ impl = "backend" /\ hist.op = "none"
    /\ \E e \in StoreEntries, outcome \in StoreOutcomes :
          /\ db' = After(outcome, save_entry(conn(db), e))
          /\ hist' = Made("save_entry", <<e>>, ResultOf(outcome))
    /\ UNCHANGED <<remote, run, log, now, clock, impl>>

StoreSaveAnnotation ==
    /\ impl = "backend" /\ hist.op = "none"
    /\ \E a \in StoreAnnotations, entry_id \in EntryIds, outcome \in StoreOutcomes :
          /\ db' = After(outcome, save_annotation(conn(db), a, entry_id))
          /\ hist' = Made("save_annotation", <<a, entry_id>>, ResultOf(outcome))
    /\ UNCHANGED <<remote, run, log, now, clock, impl>>

StoreDeleteEntry ==
    /\ impl = "backend" /\ hist.op = "none"
    /\ \E id \in EntryIds, outcome \in StoreOutcomes :
          /\ db' = After(outcome, delete_entry(conn(db), id))
          /\ hist' = Made("delete_entry", <<id>>, ResultOf(outcome))
    /\ UNCHANGED <<remote, run, log, now, clock, impl>>

StoreDeleteAnnotation ==
    /\ impl = "backend" /\ hist.op = "none"
    /\ \E id \in AnnIds, outcome \in StoreOutcomes :
          /\ db' = After(outcome, delete_annotation(conn(db), id))
          /\ hist' = Made("delete_annotation", <<id>>, ResultOf(outcome))
    /\ UNCHANGED <<remote, run, log, now, clock, impl>>

StoreDeleteUnusedTags ==
    /\ impl = "backend" /\ hist.op = "none"
    /\ \E outcome \in StoreOutcomes :
          /\ db' = After(outcome, delete_unused_tags(conn(db)))
          /\ hist' = Made("delete_unused_tags", <<>>, ResultOf(outcome))
    /\ UNCHANGED <<remote, run, log, now, clock, impl>>

\* DB::init.  wallabag-backend: Err(DBExists) when the file exists, else
\* up().  wallabag-cli: Ok(()) when the file exists, else up().  up() opens
\* the file, which creates it, and runs up.sql, which may fail.
StoreInit ==
    /\ hist.op = "none"
    /\ \E outcome \in {"up_fail", "ok"} :
          IF db.file
          THEN /\ outcome = "ok"
               /\ db' = db
               /\ hist' = Made("init", <<>>, IF impl = "backend" THEN "err" ELSE "ok")
          ELSE IF outcome = "up_fail"
          THEN /\ db' = OnFile(EmptyStore, TRUE, FALSE)
               /\ hist' = Made("init", <<>>, "err")
          ELSE /\ db' = up(db)
               /\ hist' = Made("init", <<>>, "ok")
    /\ UNCHANGED <<remote, run, log, now, clock, impl>>

\* DB::reset.  wallabag-backend: the file is removed if it exists, then
\* up().  wallabag-cli: down()? if the file exists, then init(), which
\* finds the file and returns Ok(()) without up(): the rows are gone, and
\* the tables are what down.sql leaves of them.
StoreReset ==
    /\ hist.op = "none"
    /\ \E outcome \in {"remove_fail", "up_fail", "ok"}, schema \in BOOLEAN :
          IF outcome = "remove_fail"
          THEN /\ db.file /\ ~schema
               /\ db' = db
               /\ hist' = Made("reset", <<>>, "err")
          ELSE IF impl = "cli" /\ db.file
          THEN /\ outcome = "ok"
               /\ db' = OnFile(EmptyStore, TRUE, schema)
               /\ hist' = Made("reset", <<>>, "ok")
          ELSE IF outcome = "up_fail"
          THEN /\ ~schema
               /\ db' = OnFile(EmptyStore, TRUE, FALSE)
               /\ hist' = Made("reset", <<>>, "err")
          ELSE /\ ~schema
               /\ db' = up(db)
               /\ hist' = Made("reset", <<>>, "ok")
    /\ UNCHANGED <<remote, run, log, now, clock, impl>>

\* fn row_to_entry: the Entry built from a row; content is the Option read
\* from the second column, annotations are not loaded.  None is <<>>,
\* Some(x) is <<x>>.
row_to_entry(content, row) ==
    [id |-> row.id, updated_at |-> row.updated_at, content |-> content,
     tags |-> row.tags, annotations |-> <<>>]

\* What the read operations return: the call and the value it returned.
Got(op, arg, outcome, value) ==
    Made(op, arg, ResultOf(outcome))
        @@ [value |-> IF ResultOf(outcome) = "ok" THEN value ELSE <<>>]

\* DB::get_all_entries: SELECT id, "", created_at, ... from entries.  The
\* second column is the empty string, which row_to_entry reads as Some("");
\* a build of SQLite that takes "" for an identifier fails the statement.
StoreGetAllEntries ==
    /\ impl = "backend" /\ hist.op = "none"
    /\ \E outcome \in StoreOutcomes :
          /\ db' = After(outcome, conn(db))
          /\ hist' = Got("get_all_entries", <<>>, outcome,
                         LET s == SetToSeq(DOMAIN conn(db).entries)
                         IN [i \in 1..Len(s) |->
                                row_to_entry(<<"">>, conn(db).entries[s[i]])])
    /\ UNCHANGED <<remote, run, log, now, clock, impl>>

\* DB::get_entry: SELECT id, content, ... FROM entries WHERE id = ?
StoreGetEntry ==
    /\ impl = "backend" /\ hist.op = "none"
    /\ \E id \in EntryIds, outcome \in StoreOutcomes :
          /\ db' = After(outcome, conn(db))
          /\ hist' = Got("get_entry", <<id>>, outcome,
                         LET rows == get_entry(conn(db), id)
                         IN [i \in 1..Len(rows) |->
                                row_to_entry(<<rows[i].content>>, rows[i])])
    /\ UNCHANGED <<remote, run, log, now, clock, impl>>

\* DB::get_entries_since: SELECT id, content, ... WHERE updated_at >= ?
StoreGetEntriesSince ==
    /\ impl = "backend" /\ hist.op = "none"
    /\ \E since \in StoreStamps, outcome \in StoreOutcomes :
          /\ db' = After(outcome, conn(db))
          /\ hist' = Got("get_entries_since", <<since>>, outcome,
                         LET rows == get_entries_since(conn(db), since)
                         IN [i \in 1..Len(rows) |->
                                row_to_entry(<<rows[i].content>>, rows[i])])
    /\ UNCHANGED <<remote, run, log, now, clock, impl>>

NextStore ==
    \/ StoreGetAllEntries
    \/ StoreGetEntry
    \/ StoreGetEntriesSince
    \/ StoreInit
    \/ StoreReset
    \/ StoreSaveEntry
    \/ StoreSaveAnnotation
    \/ StoreDeleteEntry
    \/ StoreDeleteAnnotation
    \/ StoreDeleteUnusedTags

\* One call of a store operation on any small store.
SpecStore == InitStoreOps /\ [][NextStore]_vars

---------------------------------------------------------------------------
(* The remote client, client.rs: one call of smart_q at a time, the server  *)
(* answering each request as it pleases.  Here run holds the client's       *)
(* token_info (whether it is Some) and the position in smart_q, log the     *)
(* requests sent during the call with their responses, hist the number of   *)
(* calls made and of refresh_token() calls during the call.  impl is the    *)
(* generation of the client: "api" for wallabag-api/src/client.rs, "async"  *)
(* for src/client.rs.                                                       *)

\* At most this many calls of smart_q are made.
MaxCalls == 2

\* What the server answers: a success; 401 with "expired" in its
\* error_description; another 401; anything else that q turns into an error
\* (403, 404, 304, another status, a failed send, a body that does not parse).
Responses == {"ok", "expired", "unauthorized", "other"}

\* fn q, the match on response.status(): the error q returns.
ErrorOf(response) ==
    IF response = "expired" THEN "ExpiredToken"
    ELSE IF response = "unauthorized" THEN "Unauthorized"
    ELSE "Other"

Sent(op, response) == [op |-> op, response |-> response]

ClientAt(pc, token_info, result) ==
    [pc |-> pc, token_info |-> token_info, result |-> result]

\* smart_q looping: every Err(ExpiredToken) of q leads to a refresh.
OnExpired_Always(pc) == "refresh"

\* smart_q, `if let Err(ClientError::ExpiredToken) = response_result`: the
\* first q is followed by refresh_token()? and a second q, whose result is
\* the result of smart_q.
OnExpired(pc) == IF pc = "q1" THEN "refresh" ELSE "idle"

\* The client after q has returned the error of response at pc.
AfterError(pc, response) ==
    IF response = "expired" /\ OnExpired(pc) # "idle"
    THEN ClientAt(OnExpired(pc), run.token_info, "none")
    ELSE ClientAt("idle", run.token_info, ErrorOf(response))

InitClient ==
    /\ impl \in {"api", "async"}
    /\ now = StartTime
    /\ clock = StartTime
    /\ db = EmptyStore
    /\ remote = InitRemote([id \in EntryIds |-> Absent], Absent)
    /\ run = ClientAt("idle", FALSE, "none")
    /\ log = <<>>
    /\ hist = [calls |-> 0, refreshes |-> 0]

\* A public method of Client calls smart_q (through smart_json_q or
\* smart_text_q).
CallSmartQ ==
    /\ run.pc = "idle" /\ hist.calls < MaxCalls
    /\ run' = ClientAt("q1", run.token_info, "none")
    /\ log' = <<>>
    /\ hist' = [calls |-> hist.calls + 1, refreshes |-> 0]
    /\ UNCHANGED <<db, remote, now, clock, impl>>

\* get_token() with no token loaded: load_token() posts the credentials.
\* wallabag-api calls it inside q, so that its error is the error of the
\* first q; src/client.rs calls it in smart_q before the first q, with `?`.
GetToken ==
    /\ run.pc = "q1" /\ ~run.token_info
    /\ \E response \in Responses :
          /\ log' = Append(log, Sent("token", response))
          /\ run' = IF response = "ok" THEN ClientAt("q1", TRUE, "none")
                    ELSE IF impl = "api" THEN AfterError("q1", response)
                    ELSE ClientAt("idle", FALSE, ErrorOf(response))
    /\ UNCHANGED <<db, remote, hist, now, clock, impl>>

\* q with a token: the request is sent; a success is the result of
\* smart_q, an error goes the way smart_q takes it.
SendRequest ==
    /\ run.pc \in {"q1", "q2"} /\ run.token_info
    /\ \E response \in Responses :
          /\ log' = Append(log, Sent("request", response))
          /\ run' = IF response = "ok" THEN ClientAt("idle", TRUE, "ok")
                    ELSE AfterError(run.pc, response)
    /\ UNCHANGED <<db, remote, hist, now, clock, impl>>

\* refresh_token()?: the refresh grant, or load_token() when no token is
\* loaded; its error is the result of smart_q.
RefreshToken ==
    /\ run.pc = "refresh"
    /\ \E response \in Responses :
          /\ log' = Append(log, Sent(IF run.token_info THEN "refresh" ELSE "token",
                                     response))
          /\ run' = IF response = "ok" THEN ClientAt("q2", TRUE, "none")
                    ELSE ClientAt("idle", run.token_info, ErrorOf(response))
    /\ hist' = [hist EXCEPT !.refreshes = @ + 1]
    /\ UNCHANGED <<db, remote, now, clock, impl>>

NextClient ==
    \/ CallSmartQ
    \/ GetToken
    \/ SendRequest
    \/ RefreshToken

\* Calls of the client's methods, one after the other.
SpecClient == InitClient /\ [][NextClient]_vars

---------------------------------------------------------------------------
(* The entry listing, Client::_get_entries: one call, the server answering  *)
(* each page request as it pleases.  Here run holds the locals of the call  *)
(* (filter.page, entries) and what it returned, log the page requests made  *)
(* with their responses.                                                    *)

\* The page numbers and page counts the server reports are at most this.
MaxPage == 3

\* At most this many page requests are followed.
MaxRequests == 3

\* The items of one page: entry ids.
PageItems == {<<>>, <<1>>, <<2>>}

\* What smart_json_q returns for a page request: an error, or the
\* PaginatedEntries the server sent.
PageResponses ==
    {[ok |-> FALSE, page |-> 0, pages |-> 0, items |-> <<>>]}
        \cup [ok : {TRUE}, page : 1..MaxPage, pages : 0..MaxPage, items : PageItems]

\* `if json.page <= json.pages`: the last page asked for again.
MorePages_Inclusive(json) == json.page <= json.pages

\* `if json.page < json.pages`
MorePages(json) == json.page < json.pages

ListingAt(pc, page, entries, result, value) ==
    [pc |-> pc, page |-> page, entries |-> entries, result |-> result, value |-> value]

InitPages ==
    /\ impl \in {"api", "async"}
    /\ now = StartTime
    /\ clock = StartTime
    /\ db = EmptyStore
    /\ remote = InitRemote([id \in EntryIds |-> Absent], Absent)
    /\ run = ListingAt("idle", 0, <<>>, "none", <<>>)
    /\ log = <<>>
    /\ hist = [calls |-> 0]

\* `let mut entries = Entries::new(); ... filter.page = 1;`
CallGetEntries ==
    /\ run.pc = "idle" /\ hist.calls = 0
    /\ run' = ListingAt("loop", 1, <<>>, "none", <<>>)
    /\ hist' = [calls |-> 1]
    /\ UNCHANGED <<db, remote, log, now, clock, impl>>

\* One turn of the loop: smart_json_q(GET, Entries, &filter)?, then
\* entries.extend(items), then the next page or break and Ok(entries).
FetchPage ==
    /\ run.pc = "loop" /\ Len(log) < MaxRequests
    /\ \E json \in PageResponses :
          /\ log' = Append(log, [requested |-> run.page, response |-> json])
          /\ run' = IF ~json.ok
                    THEN ListingAt("idle", run.page, run.entries, "err", <<>>)
                    ELSE IF MorePages(json)
                    THEN ListingAt("loop", json.page + 1, run.entries \o json.items,
                                   "none", <<>>)
                    ELSE ListingAt("idle", run.page, run.entries \o json.items,
                                   "ok", <<run.entries \o json.items>>)
    /\ UNCHANGED <<db, remote, hist, now, clock, impl>>

NextPages ==
    \/ CallGetEntries
    \/ FetchPage

\* One call of get_entries / get_entries_with_filter.
SpecPages == InitPages /\ [][NextPages]_vars

---------------------------------------------------------------------------
(* Adding a url, Backend::add_url and Backend::add_url_online: one call on  *)
(* a small store.  Here log holds the remote calls of the call, hist the    *)
(* call made: its name, its argument, its result, and the store and the     *)
(* server it was made on.                                                   *)

\* The urls handed in: a normalized one, one that Url::parse normalizes (an
\* empty path becomes "/"), one that does not parse (no scheme).
Urls == {"http://a/", "http://a", "a"}

\* Url::parse accepting every string as it is.
UrlParse_Lenient(url) == <<url>>

\* reqwest::Url::parse(url)?.as_str(): the normalized url, or no url when
\* the string does not parse.
UrlParse(url) == IF url = "a" THEN <<>> ELSE <<"http://a/">>

\* The id an INSERT gives a row of a table with an auto-increment id.
NextRowId(q) ==
    IF q = <<>> THEN 1
    ELSE 1 + (CHOOSE m \in {q[i].id : i \in 1..Len(q)} :
                 \A i \in 1..Len(q) : q[i].id <= m)

\* INSERT OR REPLACE INTO new_urls (url) VALUES (?)
add_new_url(d, url) ==
    [d EXCEPT !.new_urls = Append(@, [id |-> NextRowId(@), url |-> url])]

AddMade(op, arg, result) ==
    [op |-> op, arg |-> arg, result |-> result, before |-> <<db>>,
     server |-> <<remote>>]

\* The queues of new urls the stores start with.
UrlQueues ==
    {<<>>, <<[id |-> 1, url |-> "http://a/"]>>,
     <<[id |-> 1, url |-> "http://b/"], [id |-> 3, url |-> "http://a/"]>>}

InitAdd ==
    /\ impl = "backend"
    /\ now = StartTime
    /\ clock = StartTime
    /\ run = IdleRun("none")
    /\ log = <<>>
    /\ hist = [op |-> "none", arg |-> "", result |-> "none", before |-> <<>>,
               server |-> <<>>]
    /\ \E es \in SUBSET EntryIds, q \in UrlQueues, re \in {Absent, Res} :
          /\ db = [StoreOf(es, {}, IF es = {} THEN {} ELSE Tags0,
                           {<<i, t>> : i \in es, t \in Tags0})
                      EXCEPT !.new_urls = q]
          /\ remote = InitRemote([id \in EntryIds |-> re], Absent)

\* Backend::add_url: Url::parse(url)?, then db.add_new_url(url.as_str()).
AddUrl ==
    /\ hist.op = "none"
    /\ \E url \in Urls, outcome \in {"db_fail", "ok"} :
          LET parsed == UrlParse(url)
          IN IF parsed = <<>> \/ outcome = "db_fail"
             THEN db' = db /\ hist' = AddMade("add_url", url, "err")
             ELSE /\ db' = add_new_url(db, parsed[1])
                  /\ hist' = AddMade("add_url", url, "ok")
    /\ UNCHANGED <<remote, run, log, now, clock, impl>>

\* Backend::add_url_online: Url::parse(url)?, client.create_entry(..)?,
\* then pull_entry(&entry): save_entry and, the new entry having no
\* annotations, the rebuilding of its tag links.
AddUrlOnline ==
    /\ hist.op = "none"
    /\ \E url \in Urls, outcome \in {"remote_fail", "save_fail", "links_fail", "ok"} :
          LET parsed == UrlParse(url)
              remote_ok == outcome # "remote_fail" /\ CanCreateEntry(remote)
              created == client_create_entry(remote, parsed[1], now)
              entry == RemoteEntry(created, remote.next_entry_id)
          IN IF parsed = <<>>
             THEN /\ outcome = "ok"
                  /\ UNCHANGED <<db, remote, log>>
                  /\ hist' = AddMade("add_url_online", url, "err")
             ELSE /\ log' = Append(log, Call("create_entry", parsed[1], remote_ok))
                  /\ remote' = IF remote_ok THEN created ELSE remote
                  /\ db' = IF ~remote_ok \/ outcome = "save_fail" THEN db
                           ELSE IF outcome = "links_fail" THEN save_entry(db, entry)
                           ELSE rebuild_tag_links(save_entry(db, entry), entry)
                  /\ hist' = AddMade("add_url_online", url,
                                     IF remote_ok /\ outcome = "ok" THEN "ok" ELSE "err")
    /\ UNCHANGED <<run, now, clock, impl>>

NextAdd ==
    \/ AddUrl
    \/ AddUrlOnline

\* One call of add_url or add_url_online.
SpecAdd == InitAdd /\ [][NextAdd]_vars

---------------------------------------------------------------------------
(* Properties *)

\* The records of the four pending queues, each named by the remote call
\* made for it and its key in the queue.
Pending(d) ==
    {<<"delete_annotation", id>> : id \in d.deleted_annotations}
    \cup {<<"delete_entry", id>> : id \in d.deleted_entries}
    \cup {<<"create_entry", d.new_urls[i].id>> : i \in 1..Len(d.new_urls)}
    \cup {<<"create_annotation", d.new_annotations[i].id>> :
             i \in 1..Len(d.new_annotations)}

Called(l, op, key, ok) == \E i \in 1..Len(l) : l[i] = Call(op, key, ok)

Returned == run.pc = "idle" /\ run.result \in {"ok", "err"}

\* C1: a call of sync or full_sync that returns an error leaves the stored
\* last_sync as it was when the call started.
C1_WatermarkUnchangedOnError ==
    run.result # "ok" => db.last_sync = hist.start_last_sync

\* A run that made remote calls, then failed, at a time when touching the
\* watermark would have moved it.
C1_Witness ==
    /\ Returned /\ run.result = "err"
    /\ Len(log) >= 2
    /\ db.last_sync < clock

\* C2: a pending record leaves its queue only in a run in which the remote
\* call for that record has returned success; a failed remote call for a
\* record leaves the record in its queue.
C2_RemovedOnlyAfterSuccess ==
    [][/\ \A p \in Pending(db) \ Pending(db') : Called(log', p[1], p[2], TRUE)
       /\ (/\ Len(log') = Len(log) + 1
           /\ log'[Len(log')].op \in PendingOps
           /\ ~log'[Len(log')].ok)
          => <<log'[Len(log')].op, log'[Len(log')].key>> \in Pending(db')]_vars

\* A record has been removed after its call succeeded, and the run then
\* failed on the call for another record, which is still queued.
C2_Witness ==
    /\ Returned /\ run.result = "err"
    /\ \E i \in 1..Len(log) :
         /\ log[i].op \in PendingOps /\ log[i].ok
         /\ <<log[i].op, log[i].key>> \notin Pending(db)
    /\ LET last == log[Len(log)]
       IN last.op \in PendingOps /\ ~last.ok /\ <<last.op, last.key>> \in Pending(db)

\* C3: when a run returns, every pending record whose remote call returned
\* success during the run is absent from its queue.
C3_SucceededRecordsAreGone ==
    Returned =>
        \A i \in 1..Len(log) :
            (log[i].op \in PendingOps /\ log[i].ok)
                => <<log[i].op, log[i].key>> \notin Pending(db)

\* The previous run ended on the failed remote call for a pending record.
PrevFailedOnPending ==
    /\ hist.prev_result = "err"
    /\ hist.prev_calls # <<>>
    /\ ~hist.prev_calls[Len(hist.prev_calls)].ok

BlockOf(op) ==
    IF op = "delete_annotation" THEN "del_anns"
    ELSE IF op = "delete_entry" THEN "del_entries"
    ELSE IF op = "create_entry" THEN "new_urls"
    ELSE "new_anns"

\* The block the run is in; pull_entry belongs to the loop that called it.
CurrentBlock ==
    IF run.pc \in {"pe_anns", "eq_anns"}
    THEN (IF run.ret = "new_urls" THEN "new_urls" ELSE "pull")
    ELSE run.pc

BlockIndex(b) ==
    LET ps == Phases(impl, run.mode)
    IN IF \E i \in 1..Len(ps) : ps[i] = b
       THEN CHOOSE i \in 1..Len(ps) : ps[i] = b ELSE 0

\* The run has gone through the whole loop that handles `op` records.
PastBlock(op) ==
    \/ run.result = "ok"
    \/ /\ run.pc \notin {"idle", "start"}
       /\ BlockIndex(CurrentBlock) > BlockIndex(BlockOf(op))

\* C4: after a run that failed on the remote call for pending record r, the
\* next run makes the call for r again (once it is through r's loop it has
\* made it), and makes no call for a record whose call succeeded in the
\* earlier run.
C4_RetryReattemptsExactlyTheFailed ==
    PrevFailedOnPending =>
        LET prev == hist.prev_calls
            r == prev[Len(prev)]
        IN /\ PastBlock(r.op) => \E ok \in BOOLEAN : Called(log, r.op, r.key, ok)
           /\ \A i \in 1..Len(prev) :
                prev[i].ok =>
                    \A ok \in BOOLEAN : ~Called(log, prev[i].op, prev[i].key, ok)

\* The earlier run had a successful and then a failed pending call; the next
\* run has completed.
C4_Witness ==
    /\ PrevFailedOnPending
    /\ Len(hist.prev_calls) >= 2
    /\ run.result = "ok"

\* C5 as stated: last_sync is non-decreasing across any sequence of sync and
\* full_sync calls, successful or failing, in any order.
C5_WatermarkMonotonic == [][db'.last_sync >= db.last_sync]_vars

\* C5, amended: last_sync changes only when a run returns Ok, and then to
\* the reading of the system clock at that moment; so it is non-decreasing
\* across any sequence of sync and full_sync calls during which the system
\* clock is not set back.
C5_WatermarkFollowsClock ==
    [][/\ db'.last_sync # db.last_sync =>
            run'.result = "ok" /\ db'.last_sync = clock'
       /\ clock' >= clock => db'.last_sync >= db.last_sync]_vars

\* A run has completed and moved the watermark forward, after a failed run
\* that left it alone.
C5_Witness ==
    /\ run.result = "ok" /\ hist.prev_result = "err"
    /\ db.last_sync > hist.start_last_sync

\* The row save_entry writes for an entry.
RowOf(e) == get_entry(save_entry(db, e), e.id)

UpdateEntryCalled(id) == \E ok \in BOOLEAN : Called(log, "update_entry", id, ok)

\* C6: when a listed entry has no local copy, or a local copy with a
\* strictly smaller updated_at, then after its resolution the store holds
\* the listed version (same updated_at and content) and no update_entry call
\* was made for it.
C6_PullCase ==
    \A id \in DOMAIN hist.resolved :
        LET o == hist.resolved[id]
        IN o.case \in {"absent", "older"} =>
            /\ id \in DOMAIN db.entries
            /\ db.entries[id].updated_at = o.listed.updated_at
            /\ db.entries[id].content = o.listed.content
            /\ ~UpdateEntryCalled(id)

\* A run has resolved one entry that had an older local copy (with another
\* content) and one that had none.
C6_Witness ==
    /\ run.result = "ok"
    /\ \E id \in DOMAIN hist.resolved :
         /\ hist.resolved[id].case = "older"
         /\ hist.resolved[id].before[1].content # hist.resolved[id].listed.content
    /\ \E id \in DOMAIN hist.resolved : hist.resolved[id].case = "absent"

\* C7: when the local and the listed entry have the same updated_at, the
\* entry row is not written and no update_entry call is made, but every
\* annotation embedded in the listed entry is reconciled: a strictly newer
\* remote one is pulled, a strictly newer local one is pushed.
C7_EqualCase ==
    \A id \in hist.done \cap DOMAIN hist.resolved :
        LET o == hist.resolved[id]
        IN o.case = "equal" =>
            /\ get_entry(db, id) = o.before
            /\ ~UpdateEntryCalled(id)
            /\ \A j \in 1..Len(o.listed.annotations) :
                LET ann == o.listed.annotations[j]
                    was == o.anns_before[ann.id]
                IN /\ was < ann.updated_at =>
                        /\ ann.id \in DOMAIN db.annotations
                        /\ db.annotations[ann.id].ann = ann
                   /\ was > ann.updated_at =>
                        Called(log, "update_annotation", ann.id, TRUE)

\* C8: when the local copy is strictly newer than the listed one, the local
\* version is sent with update_entry and the entry the server returns is
\* written to the store: the local copy equals the server's response.
C8_PushCase ==
    \A id \in DOMAIN hist.resolved :
        LET o == hist.resolved[id]
        IN o.case = "newer" =>
            /\ Called(log, "update_entry", id, TRUE)
            /\ o.response # <<>>
            /\ o.response[1].content = o.before[1].content
            /\ get_entry(db, id) = RowOf(o.response[1])

\* A locally newer entry has been pushed; the server's response carries
\* another updated_at than both the local and the listed version.
C8_Witness ==
    \E id \in DOMAIN hist.resolved :
        LET o == hist.resolved[id]
        IN /\ o.case = "newer"
           /\ o.response # <<>>
           /\ o.response[1].updated_at # o.before[1].updated_at
           /\ o.response[1].updated_at # o.listed.updated_at
           /\ o.response[1].content # o.listed.content

\* sync_annotation is running on the first annotation of run.anns and
\* returns Ok.
AnnotationReconciled ==
    /\ run.pc \in {"pe_anns", "eq_anns"} /\ run.anns # <<>>
    /\ run'.pc # "idle"

\* C9: annotations are resolved by the same rule as entries: no local copy
\* or a strictly older one -> the remote annotation is saved; equal
\* updated_at -> no local write and no remote call; strictly newer local
\* copy -> update_annotation is called and the annotation the server returns
\* is saved.
C9_AnnotationRule ==
    [][AnnotationReconciled =>
        LET ann == Head(run.anns)
            case == CaseOf(get_annotation(db, ann.id), ann.updated_at)
        IN /\ case \in {"absent", "older"} =>
                /\ get_annotation(db', ann.id) = <<ann>>
                /\ log' = log /\ remote' = remote
           /\ case = "equal" => db' = db /\ log' = log /\ remote' = remote
           /\ case = "newer" =>
                /\ log' = Append(log, Call("update_annotation", ann.id, TRUE))
                /\ remote'.annotations[ann.id].ann.text = db.annotations[ann.id].ann.text
                /\ get_annotation(db', ann.id) = <<remote'.annotations[ann.id].ann>>]_vars

\* Annotation 1 was newer locally and has been pushed; the store holds the
\* server's answer. Annotation 2 is saved too.
C9_Witness ==
    /\ run.result = "ok"
    /\ Called(log, "update_annotation", 1, TRUE)
    /\ get_annotation(db, 1) = <<remote.annotations[1].ann>>
    /\ 2 \in DOMAIN db.annotations

\* C10: in every run the remote delete calls for all pending annotation
\* deletes are issued before the remote delete call for any pending entry
\* delete.
C10_AnnotationDeletesFirst ==
    \A i \in 1..Len(log) :
        log[i].op = "delete_entry" =>
            \A a \in hist.start_queues.deleted_annotations :
                \E j \in 1..(i - 1) :
                    log[j].op = "delete_annotation" /\ log[j].key = a

\* The run is in its pull phase: walking the listing, inside pull_entry
\* called from that walk, or reconciling an equal entry's annotations.
InPullPhase ==
    \/ run.pc \in {"pull", "eq_anns"}
    \/ run.pc = "pe_anns" /\ run.ret = "pull"

\* C11: in every run the remote delete calls for all pending deletes come
\* before the call that fetches the entry listing, and while the run pulls,
\* no entry or annotation whose delete was pending at its start is in the
\* local store.
C11_DeletesBeforeListing ==
    /\ \A i \in 1..Len(log) :
          log[i].op = "get_entries" =>
              /\ \A a \in hist.start_queues.deleted_annotations :
                    \E j \in 1..(i - 1) :
                        log[j].op = "delete_annotation" /\ log[j].key = a
              /\ \A e \in hist.start_queues.deleted_entries :
                    \E j \in 1..(i - 1) :
                        log[j].op = "delete_entry" /\ log[j].key = e
    /\ InPullPhase =>
          /\ hist.start_queues.deleted_entries \cap DOMAIN db.entries = {}
          /\ hist.start_queues.deleted_annotations \cap DOMAIN db.annotations = {}

\* The pull phase of a run that started with a pending entry delete has
\* put that entry back into the local store.
C11_PulledBack ==
    /\ InPullPhase
    /\ hist.start_queues.deleted_entries \cap DOMAIN db.entries # {}

C13_FullSyncDetectsRemoteDeletes ==
    (Returned /\ run.result = "ok" /\ hist.mode = "full_sync") =>
        /\ \A id \in hist.start_queues.entries :
              id \notin hist.listing[1].entries => get_entry(db, id) = <<>>
        /\ \A id \in DOMAIN hist.resolved :
              hist.resolved[id].case = "equal" =>
                  get_entry(db, id) = hist.resolved[id].before

\* A successful full_sync that began with one entry the server no longer
\* has and one entry equal to the server's.
C13_Witness ==
    /\ Returned /\ run.result = "ok" /\ hist.mode = "full_sync"
    /\ \E id \in hist.start_queues.entries :
          /\ id \notin hist.listing[1].entries
          /\ id \notin hist.listing[1].remote_entries
    /\ \E id \in DOMAIN hist.resolved :
          hist.resolved[id].case = "equal" /\ id \in DOMAIN db.entries

\* C14: after a successful full_sync, an annotation that was in the local
\* store when the run started is still there exactly when the server had
\* it at the time of the listing, whether or not the listing embedded the
\* entries' annotations.
C14_AnnotationDeletedIffGoneRemotely ==
    (Returned /\ run.result = "ok" /\ hist.mode = "full_sync") =>
        \A a \in hist.start_queues.annotations :
            get_annotation(db, a) # <<>> <=> a \in hist.listing[1].remote_annotations

\* The same for listings that embed the annotations of their entries.
C14_WhenEmbedded ==
    (/\ Returned /\ run.result = "ok" /\ hist.mode = "full_sync"
     /\ hist.listing[1].annotations = hist.listing[1].remote_annotations) =>
        \A a \in hist.start_queues.annotations :
            get_annotation(db, a) # <<>> <=> a \in hist.listing[1].remote_annotations

\* C15: during and after a run of sync, every entry and every annotation
\* that was in the local store when the run started is still in it.
C15_SyncDeletesNoRow ==
    hist.mode = "sync" =>
        /\ hist.start_queues.entries \subseteq DOMAIN db.entries
        /\ hist.start_queues.annotations \subseteq DOMAIN db.annotations

\* A successful sync that began with an entry and an annotation the server
\* no longer has, saved an entry over an older copy, and still has them.
C15_Witness ==
    /\ Returned /\ run.result = "ok" /\ hist.mode = "sync"
    /\ \E id \in hist.start_queues.entries : id \notin DOMAIN remote.entries
    /\ \E a \in hist.start_queues.annotations : a \notin DOMAIN remote.annotations
    /\ \E id \in DOMAIN hist.resolved : hist.resolved[id].case = "older"

\* The remote call a step has just made, if it made one.
LastCall == log'[Len(log')]

\* C16: in step 3 of sync a remote update is issued for a local entry
\* (annotation) only if its updated_at is at or after the last_sync the run
\* started with and its id is not among the ids of the listing (the
\* annotation ids embedded in it); and when the loop is through, every such
\* entry (annotation) has had its update call.
C16_Step3PushRule ==
    /\ [][(run.pc = "push_entries" /\ log' # log) =>
             /\ LastCall.op = "update_entry"
             /\ LastCall.key \notin hist.listing[1].entries
             /\ LastCall.key \in DOMAIN db.entries
             /\ db.entries[LastCall.key].updated_at >= hist.start_last_sync]_vars
    /\ [][(run.pc = "push_anns" /\ log' # log) =>
             /\ LastCall.op = "update_annotation"
             /\ LastCall.key \notin hist.listing[1].annotations
             /\ LastCall.key \in DOMAIN db.annotations
             /\ db.annotations[LastCall.key].ann.updated_at >= hist.start_last_sync]_vars
    /\ []((run.pc = "push_entries" /\ run.todo = <<>>) =>
             \A id \in DOMAIN db.entries \ hist.listing[1].entries :
                 db.entries[id].updated_at >= hist.start_last_sync
                     <=> Called(log, "update_entry", id, TRUE))
    /\ []((run.pc = "push_anns" /\ run.todo = <<>>) =>
             \A a \in DOMAIN db.annotations \ hist.listing[1].annotations :
                 db.annotations[a].ann.updated_at >= hist.start_last_sync
                     <=> Called(log, "update_annotation", a, TRUE))

\* Step 3 is through its annotation loop, having pushed an entry updated
\* exactly at last_sync and an annotation, and having passed over an entry
\* that is older than last_sync.
C16_Witness ==
    /\ run.mode = "sync" /\ run.pc = "push_anns" /\ run.todo = <<>>
    /\ \E id \in DOMAIN db.entries \ hist.listing[1].entries :
          /\ db.entries[id].updated_at = hist.start_last_sync
          /\ Called(log, "update_entry", id, TRUE)
    /\ \E id \in DOMAIN db.entries \ hist.listing[1].entries :
          db.entries[id].updated_at < hist.start_last_sync
    /\ \E a \in DOMAIN db.annotations : Called(log, "update_annotation", a, TRUE)

\* C17: when step 3 of sync is through a loop, the local copy of every
\* entry (annotation) it pushed equals the version the server holds after
\* the push, which is what the update call returned.
C17_Step3PushWritesResponse ==
    /\ (run.pc = "push_entries" /\ run.todo = <<>>) =>
          \A id \in DOMAIN db.entries \ hist.listing[1].entries :
              Called(log, "update_entry", id, TRUE) =>
                  get_entry(db, id) = RowOf(RemoteEntry(remote, id))
    /\ (run.pc = "push_anns" /\ run.todo = <<>>) =>
          \A a \in DOMAIN db.annotations \ hist.listing[1].annotations :
              Called(log, "update_annotation", a, TRUE) =>
                  get_annotation(db, a) = <<remote.annotations[a].ann>>

\* C18: after a successful sync or full_sync both create queues are empty,
\* and for every record they held when the run started the entry
\* (annotation) that the create call returned is in the local store under
\* the id the server gave it.
C18_CreatesArePulled ==
    (Returned /\ run.result = "ok") =>
        /\ get_new_urls(db) = <<>>
        /\ get_new_annotations(db) = <<>>
        /\ \A k \in hist.start_queues.new_urls :
              \E c \in hist.created :
                  /\ c.op = "create_entry" /\ c.key = k
                  /\ get_entry(db, c.id) = RowOf(c.entity)
        /\ \A k \in hist.start_queues.new_annotations :
              \E c \in hist.created :
                  /\ c.op = "create_annotation" /\ c.key = k
                  /\ get_annotation(db, c.id) = <<c.entity>>

\* A successful run that began with a pending url and a pending annotation;
\* the created entry got an id the store had not seen.
C18_Witness ==
    /\ Returned /\ run.result = "ok"
    /\ hist.start_queues.new_urls # {}
    /\ hist.start_queues.new_annotations # {}
    /\ \E c \in hist.created :
          c.op = "create_entry" /\ c.id \notin hist.start_queues.entries
                                /\ c.id \in DOMAIN db.entries

\* C19: a remote call that failed is the last thing its run did: the run
\* has returned an error, and no remote call follows the failed one.
C19_NoRemoteErrorSwallowed ==
    \A i \in 1..Len(log) :
        ~log[i].ok => /\ i = Len(log)
                      /\ Returned /\ run.result = "err"

\* C20: when a run has returned an error, what it did before the failing
\* step is still in the store: the pending record of every successful
\* create or delete call that was followed by another call is gone, every
\* entry the pull loop saved holds the saved version, and every created
\* entity whose pending record was removed is stored.
C20_NothingRolledBack ==
    (Returned /\ run.result = "err") =>
        /\ \A i \in 1..(Len(log) - 1) :
              (log[i].ok /\ log[i].op \in PendingOps) =>
                  <<log[i].op, log[i].key>> \notin Pending(db)
        /\ \A id \in DOMAIN hist.resolved :
              LET o == hist.resolved[id]
              IN /\ o.case \in {"absent", "older"} =>
                        get_entry(db, id) = RowOf(o.listed)
                 /\ o.case = "newer" => get_entry(db, id) = RowOf(o.response[1])
        /\ \A c \in hist.created :
              <<c.op, c.key>> \notin Pending(db) =>
                  IF c.op = "create_entry"
                  THEN get_entry(db, c.id) = RowOf(c.entity)
                  ELSE get_annotation(db, c.id) = <<c.entity>>

\* A run that removed a pending record and saved a pulled entry, and then
\* failed.
C20_Witness ==
    /\ Returned /\ run.result = "err"
    /\ \E i \in 1..(Len(log) - 1) :
          /\ log[i].ok /\ log[i].op \in PendingOps
          /\ <<log[i].op, log[i].key>> \in
                 {<<"delete_annotation", a>> : a \in hist.start_queues.deleted_annotations}
                 \cup {<<"delete_entry", e>> : e \in hist.start_queues.deleted_entries}
    /\ \E id \in DOMAIN hist.resolved :
          /\ hist.resolved[id].case \in {"absent", "older"}
          /\ get_entry(db, id) # hist.resolved[id].before

MutatingOps ==
    {"update_entry", "update_annotation", "create_entry", "create_annotation",
     "delete_entry", "delete_annotation"}

\* The store but for last_sync.
Content(d) == [d EXCEPT !.last_sync = 0]

\* The run is a sync that follows a successful run, with nothing done to
\* the store or the server in between.
SecondRun == hist.prev_result = "ok" /\ hist.mode = "sync"

\* C21: a run of sync that follows a successful run makes no update, create
\* or delete call on the server, and no step of it changes anything in the
\* local store but last_sync.
C21_SecondRunIsNoOp ==
    /\ [](SecondRun => \A i \in 1..Len(log) : log[i].op \notin MutatingOps)
    /\ [][(SecondRun /\ run.pc # "idle") => Content(db') = Content(db)]_vars

\* C22: when a sync has returned Ok, every entry the server holds with an
\* updated_at before the last_sync it stored is in the local store with the
\* same updated_at, also when the server was changed while the sync ran.
C22_ConsistentBelowWatermark ==
    (Returned /\ run.result = "ok" /\ hist.mode = "sync") =>
        ConsistentBelow(db, remote, db.last_sync)

\* The tags the taglinks table holds for an entry.
LinkedTags(d, id) == {l[2] : l \in {k \in d.taglinks : k[1] = id}}

\* The entries whose row a step has written.
SavedEntries(d, e) ==
    {id \in DOMAIN e.entries : id \notin DOMAIN d.entries \/ e.entries[id] # d.entries[id]}

\* C23: after any save_entry(entry), the tags linked to entry.id in the
\* taglinks table are the tags stored in the tags column of the entry's row.
C23_SaveEntryKeepsTagLinks ==
    [][\A id \in SavedEntries(db, db') :
          LinkedTags(db', id) = db'.entries[id].tags]_vars

\* The store operation op has returned Ok.
Did(op) == hist.op = op /\ hist.result = "ok"

\* The store the last call was made on, once its connection was open.
Before == conn(hist.before[1])

\* C24: delete_unused_tags removes a tag if and only if no taglinks row refers
\* to it; the tags with a link and every taglinks row, like every other row,
\* are left as they were.
C24_DeleteUnusedTags ==
    Did("delete_unused_tags") =>
        /\ \A t \in Before.tags :
              t \notin db.tags <=> ~\E l \in Before.taglinks : l[2] = t
        /\ db.tags \subseteq Before.tags
        /\ db = [Before EXCEPT !.tags = db.tags]

\* delete_unused_tags has removed one tag and kept another, linked one.
C24_Witness ==
    /\ Did("delete_unused_tags")
    /\ Before.tags \ db.tags # {}
    /\ db.tags # {}
    /\ db.taglinks # {}

\* C25: after every successful sync or full_sync no tag is left in the store
\* without a taglinks row that refers to it, entries deleted by the
\* full_sync or not.
C25_NoUnusedTagAfterSync ==
    (Returned /\ run.result = "ok") =>
        \A t \in db.tags : \E l \in db.taglinks : l[2] = t

\* A successful full_sync that started with a tag no link referred to.
C25_Witness ==
    /\ Returned /\ run.result = "ok" /\ hist.mode = "full_sync"
    /\ hist.start_queues.unused_tags # {}

\* C26: init() on a store that exists returns an error and leaves every row
\* of the store as it was: of init and reset, only reset destroys data.
C26_InitFailsOnExistingStore ==
    (hist.op = "init" /\ hist.before[1].file) =>
        /\ hist.result = "err"
        /\ db = hist.before[1]

\* The rows of a table (a function from ids to rows) but for the row of id
\* are the same in f and g, and g has no row of id.
DeletedFrom(f, g, id) ==
    /\ id \notin DOMAIN g
    /\ DOMAIN g = (DOMAIN f) \ {id}
    /\ \A other \in DOMAIN g : g[other] = f[other]

\* C27: delete_entry(id) and delete_annotation(id) are idempotent hard
\* deletes: after the call there is no row with that id, the rows with
\* other ids are as they were, and for an id without a row the call
\* succeeds and changes nothing.
C27_DeletesAreIdempotent ==
    /\ Did("delete_entry") =>
          /\ DeletedFrom(Before.entries, db.entries, hist.arg[1])
          /\ hist.arg[1] \notin DOMAIN Before.entries => db = Before
          /\ delete_entry(db, hist.arg[1]) = db
    /\ Did("delete_annotation") =>
          /\ DeletedFrom(Before.annotations, db.annotations, hist.arg[1])
          /\ hist.arg[1] \notin DOMAIN Before.annotations => db = Before
          /\ delete_annotation(db, hist.arg[1]) = db

\* delete_entry has returned Ok for an id the store, which has other rows,
\* had no row of.
C27_Witness ==
    /\ Did("delete_entry")
    /\ hist.arg[1] \notin DOMAIN Before.entries
    /\ db.entries # <<>>

\* The table g is the table f with the row of id written as row: the one
\* row of that id, the rows of other ids as they were.
UpsertedInto(f, g, id, row) ==
    /\ DOMAIN g = (DOMAIN f) \cup {id}
    /\ g[id] = row
    /\ \A other \in (DOMAIN f) \ {id} : g[other] = f[other]

\* C28: save_entry and save_annotation are upserts by id: the store holds
\* one row of the saved id, with the value saved last, whether or not a row
\* of that id was there; get_entry(id) / get_annotation(id) returns it; the
\* rows of other ids are as they were.
C28_SavesAreUpserts ==
    /\ Did("save_entry") =>
          /\ UpsertedInto(Before.entries, db.entries, hist.arg[1].id, hist.arg[1])
          /\ get_entry(db, hist.arg[1].id) = <<hist.arg[1]>>
    /\ Did("save_annotation") =>
          /\ UpsertedInto(Before.annotations, db.annotations, hist.arg[1].id,
                          [ann |-> hist.arg[1], entry_id |-> hist.arg[2]])
          /\ get_annotation(db, hist.arg[1].id) = <<hist.arg[1]>>

\* save_entry has replaced a row by a different one, next to another row.
C28_Witness ==
    /\ Did("save_entry")
    /\ hist.arg[1].id \in DOMAIN Before.entries
    /\ Before.entries[hist.arg[1].id] # hist.arg[1]
    /\ DOMAIN db.entries # {hist.arg[1].id}

\* smart_q has returned.
SmartQReturned == run.pc = "idle" /\ hist.calls > 0

\* The positions in log of the requests sent for the call itself (not for a
\* token).
Requests == {i \in 1..Len(log) : log[i].op = "request"}

\* The first sending of the request was answered with an expired token.
FirstExpired ==
    \E i \in Requests :
        log[i].response = "expired" /\ \A j \in Requests : i <= j

\* The token request made by refresh_token() succeeded.
Refreshed ==
    \E i \in 1..Len(log) :
        /\ log[i].op # "request" /\ log[i].response = "ok"
        /\ \E j \in Requests : j < i

C30_NoExpiredTokenReturned ==
    (impl = "api" /\ SmartQReturned) => run.result # "ExpiredToken"

RECURSIVE ItemsOf(_)
\* The items of the pages of a log of page requests, in the order fetched.
ItemsOf(l) ==
    IF l = <<>> THEN <<>>
    ELSE ItemsOf(SubSeq(l, 1, Len(l) - 1)) \o l[Len(l)].response.items

\* C31: the listing asks for page 1 first and for the page after the
\* reported one while the reported page < the reported pages; it stops at
\* the first response with page >= pages and returns the items of all the
\* pages fetched, in the order fetched; an error on any page is returned,
\* with no list.
C31_Pagination ==
    /\ log # <<>> => log[1].requested = 1
    /\ \A i \in 1..(Len(log) - 1) :
          /\ log[i].response.ok
          /\ log[i].response.page < log[i].response.pages
          /\ log[i + 1].requested = log[i].response.page + 1
    /\ (run.pc = "loop" /\ log # <<>>) =>
          /\ log[Len(log)].response.ok
          /\ log[Len(log)].response.page < log[Len(log)].response.pages
    /\ run.result = "ok" =>
          /\ log[Len(log)].response.ok
          /\ log[Len(log)].response.page >= log[Len(log)].response.pages
          /\ run.value = <<ItemsOf(log)>>
    /\ run.result = "err" =>
          /\ ~log[Len(log)].response.ok
          /\ run.value = <<>>

\* A listing of three pages has returned the items of the first and the
\* third page, the second being empty.
C31_Witness ==
    /\ run.result = "ok" /\ Len(log) = 3
    /\ log[1].response.items # <<>> /\ log[2].response.items = <<>>
    /\ log[3].response.items # <<>> /\ log[1].response.items # log[3].response.items

C33_ContentAndAnnotationsNotLoaded ==
    /\ Did("get_all_entries") =>
          \A i \in 1..Len(hist.value) :
              hist.value[i].content = <<>> /\ hist.value[i].annotations = <<>>
    /\ (Did("get_entry") \/ Did("get_entries_since")) =>
          \A i \in 1..Len(hist.value) : hist.value[i].annotations = <<>>

\* Calls of one remote operation on one id in the current run.
CallsOf(op, key) == {i \in DOMAIN log : log[i].op = op /\ log[i].key = key}

\* C34: within one sync run no entity is pushed twice: at most one
\* update_entry call per entry id and at most one update_annotation call per
\* annotation id, the pull phase and step 3 taken together, also for an
\* annotation that came only with the response to an entry push.
C34_NoEntityPushedTwice ==
    run.mode = "sync" =>
        \A id \in 1..MaxId :
            /\ Cardinality(CallsOf("update_entry", id)) <= 1
            /\ Cardinality(CallsOf("update_annotation", id)) <= 1

\* Successful calls of one remote operation for one pending record, the
\* previous run and the current one taken together.
SuccessfulCalls(op, key) ==
    LET calls == hist.prev_calls \o log
    IN {i \in DOMAIN calls :
          calls[i].op = op /\ calls[i].key = key /\ calls[i].ok}

\* C35: over any sequence of sync / full_sync runs with remote and storage
\* failures, each pending new-url record and each pending new-annotation
\* record leads to at most one successful remote create call.
C35_AtMostOneCreatePerRecord ==
    \A key \in 1..MaxId :
        /\ Cardinality(SuccessfulCalls("create_entry", key)) <= 1
        /\ Cardinality(SuccessfulCalls("create_annotation", key)) <= 1

\* C36: after a successful full_sync, with nobody else changing the server
\* during the run, the local store holds exactly the entry ids the server
\* holds, each with the server's updated_at.
C36_FullSyncConverges ==
    (Returned /\ run.result = "ok" /\ hist.mode = "full_sync") =>
        /\ DOMAIN db.entries = DOMAIN remote.entries
        /\ \A id \in DOMAIN db.entries :
              db.entries[id].updated_at = remote.entries[id].updated_at

C36_Witness ==
    /\ Returned /\ run.result = "ok" /\ hist.mode = "full_sync"
    /\ hist.start_queues.entries # hist.listing[1].remote_entries
    /\ \E i \in DOMAIN log : log[i].op = "update_entry" /\ log[i].ok

\* A run has returned Ok and the four pending queues are empty.
Synced ==
    /\ Returned /\ run.result = "ok"
    /\ db.new_urls = <<>> /\ db.new_annotations = <<>>
    /\ db.deleted_entries = {} /\ db.deleted_annotations = {}

\* C39: with sync invoked repeatedly, no new local change and failures that
\* stop in the end, eventually a run returns Ok with the four pending queues
\* empty: no pending record and no locally changed entity makes every
\* future run abort.
C39_EventuallySynced == <>Synced

\* C40: the since bound sync sends to the server, last_sync cut to whole
\* seconds, is never later than the last_sync instant its local queries
\* use, so the listing leaves out no remote entry whose updated_at is at or
\* after last_sync.
C40_SinceNotLaterThanLastSync ==
    [][(/\ run'.mode = "sync" /\ run'.pc = "pull"
        /\ Len(log') > Len(log)
        /\ log'[Len(log')].op = "get_entries") =>
          /\ run'.since = get_last_sync(db)
          /\ timestamp(run'.since) * Res <= run'.since
          /\ \A id \in DOMAIN remote.entries :
                remote.entries[id].updated_at >= run'.since
                    => id \in run'.seen_entries]_vars

C40_Witness ==
    /\ run.mode = "sync" /\ run.pc = "pull"
    /\ log # <<>> /\ log[Len(log)].op = "get_entries"
    /\ run.since % Res # 0
    /\ \E id \in run.seen_entries : remote.entries[id].updated_at >= run.since
    /\ \E id \in DOMAIN remote.entries : id \notin run.seen_entries


====
